---- MODULE Spec2Model ----
(***************************************************************************)
(* Floor stacking (Building.generate_floors), compliance checking          *)
(* (Building.is_compliant), scoring (BuildingEvaluator.evaluate_building)  *)
(* and the grid search (GridSearchOptimizer.run_optimization) of cogniticy.*)
(*                                                                         *)
(* Numbers.  Heights are integers; the two tolerances of the source,       *)
(* 1.0001 and 1.001, are compared by cross-multiplication                  *)
(* (x > m * 1.0001  iff  x * 10000 > m * 10001).  Areas are integers.      *)
(* A ratio over the parcel area (achieved_far, achieved_lot_coverage) is   *)
(* kept as its numerator, the denominator being lot_area_m2.  A score is   *)
(* kept multiplied by ScoreScale = lot_area_m2 * max_height_param, which   *)
(* is the same positive number for every massing of one parcel, so the     *)
(* order of the scores is the order of the source's floats.                *)
(* back_setback_percent is kept in units of 1/5000, max_far and            *)
(* max_lot_coverage in units of 1/2.  params.area_unit is the number of    *)
(* area units in one square metre.                                         *)
(***************************************************************************)
EXTENDS Integers, Sequences, FiniteSets, TLC

\* ---------------------------------------------------------------- bounds
MaxCandidates == 2
MaxRuns == 2

\* ---------------------------------------------------------------- inputs
GeneratorIds == {1, 2}

MaxHeights == {0, 9995, 10000, 14999}
GfFloorHeights == {5000, 10000}
UfFloorHeights == {5000}
MaxFars == {1, 2}
MaxLotCoverages == {1, 2}
MinFloorAreas == {1, 3}
LotDepths == {0, 2, 3}
LotWidths == {2}
CandidateAreas == {2, 4}

\* (back_setback_percent, min_setback_start_floor, classified faces given)
VerticalSetbackRegimes == {<<0, 3, TRUE>>, <<1, 1, TRUE>>, <<1, 1, FALSE>>, <<1, 2, TRUE>>}

None == [none |-> TRUE]

VARIABLES
    params,                  \* the resolved zoning parameters and the parcel
    footprint_polygon,       \* area of the base model's footprint_polygon, 0 when empty
    shapes,                  \* shapes[g]: what generator g's generate_shapes returns
    pc,                      \* position in run_optimization / generate_floors
    gen_idx, cand_idx,       \* the two loop indices of run_optimization
    best_building_solution, best_score, all_evaluated_solutions,
    current_building,        \* the Building being stacked / evaluated
    current_height_m, current_built_area_m2, floor_num,   \* locals of generate_floors
    stop_reason,             \* which exit of generate_floors was taken
    compliance,              \* what the last call of is_compliant returned
    evaluation,              \* what the last call of evaluate_building returned
    runs,                    \* completed calls of run_optimization
    returned,                \* the values run_optimization returned, oldest first
    summaries,               \* <<best_score, get_all_evaluated_solutions_summary()>> read
                             \* after each run, oldest first
    previous_floors,         \* <<the floor list current_building had before generate_floors
                             \* was called on it again>>; empty when it was called once
    base_footprint,          \* BaseGenerator.base_footprint, as the set of unit cells it covers
    shape_ratio_steps,       \* grid_search_parameters["shape_ratio_steps"], in quarters
    grid_generator,          \* the fields of a GridCompositionGenerator and of its params
    generated,               \* what the calls of the generators returned, oldest first
    processed_lots, failed_lots, results,    \* the fields of a CheckpointManager
    checkpoint_files,        \* the checkpoints save_checkpoint has written
    pending_lots,            \* <<what the last call of get_pending_lots returned>>
    checkpoint_calls,        \* the calls made on the CheckpointManager, oldest first
    base_params, current_params,             \* the fields of an AppParams
    lot_overrides,           \* the arguments of the update_for_lot calls, oldest first
    all_lots_data,           \* the parcels run_modeling_pipeline iterates over
    lot_idx,                 \* index of the parcel being processed
    overall_summary_data,    \* the status records, oldest first
    attempted,               \* the operations attempted, as <<parcel index, operation>>
    baseline_building, best_shape_building,  \* locals of the pipeline loop
    exported                 \* the exports made, as <<parcel index, suffix, massing>>

vars == <<params, footprint_polygon, shapes, pc, gen_idx, cand_idx, best_building_solution, best_score,
          all_evaluated_solutions, current_building, current_height_m,
          current_built_area_m2, floor_num, stop_reason, compliance, evaluation, runs,
          returned, summaries, previous_floors, base_footprint,
          shape_ratio_steps, grid_generator, generated, processed_lots, failed_lots,
          results, checkpoint_files, pending_lots, checkpoint_calls, base_params,
          current_params, lot_overrides, all_lots_data, lot_idx, overall_summary_data,
          attempted, baseline_building, best_shape_building, exported>>

optVars == <<best_building_solution, best_score, all_evaluated_solutions>>
loopVars == <<current_height_m, current_built_area_m2, floor_num, previous_floors>>
runVars == <<runs, returned, summaries>>
genVars == <<base_footprint, shape_ratio_steps, grid_generator, generated>>
ckptVars == <<processed_lots, failed_lots, results, checkpoint_files, pending_lots,
              checkpoint_calls>>
appVars == <<base_params, current_params, lot_overrides>>
pipeVars == <<all_lots_data, lot_idx, overall_summary_data, attempted, baseline_building,
              best_shape_building, exported>>
extVars == <<ckptVars, appVars, pipeVars>>

\* ------------------------------------------------------- sequence helpers
RECURSIVE SumAreas(_)
SumAreas(fs) == IF fs = <<>> THEN 0 ELSE fs[1].floor_area_m2 + SumAreas(Tail(fs))

SeqsUpTo(S, n) == UNION {[1..k -> S] : k \in 0..n}

Min3(a, b, c) == IF a <= b /\ a <= c THEN a ELSE IF b <= c THEN b ELSE c

\* ------------------------------------------------------------ the parcel
\* calculate_polygon_area_m2 of the (rectangular) parcel polygon
lot_area_m2(p) == p.lot_depth * p.lot_width

\* the edges of a face whose setback is 0 left out of the offset lines: the ring
\* does not close
apply_setbacks_area_no_passthrough(p, front, back, side) ==
    IF lot_area_m2(p) = 0 THEN 0
    ELSE IF ~p.has_faces
         THEN (IF front = 0 /\ back = 0 /\ side = 0 THEN lot_area_m2(p) ELSE 0)
         ELSE IF front > 0 /\ back > 0 /\ side > 0
                 /\ p.lot_depth - front - back > 0 /\ p.lot_width - 2 * side > 0
              THEN (p.lot_depth - front - back) * (p.lot_width - 2 * side)
              ELSE 0

\* Area of the polygon apply_setbacks_to_polygon_with_identified_faces returns for
\* a rectangular parcel; 0 stands for None or an empty polygon.  Without
\* classified faces no offset line exists: the parcel itself is returned when the
\* three setbacks are 0, None otherwise.  With the four edges classified the
\* offset lines close the rectangle (depth - front - back) x (width - 2 side).
apply_setbacks_area(p, front, back, side) ==
    IF lot_area_m2(p) = 0 THEN 0
    ELSE IF ~p.has_faces
         THEN (IF front = 0 /\ back = 0 /\ side = 0 THEN lot_area_m2(p) ELSE 0)
         ELSE IF p.lot_depth - front - back > 0 /\ p.lot_width - 2 * side > 0
              THEN (p.lot_depth - front - back) * (p.lot_width - 2 * side)
              ELSE 0

\* Building._initialize_base_footprint: area of footprint_polygon, 0 when empty
base_footprint_area(p) ==
    LET lot == lot_area_m2(p)
        faced == IF p.has_faces
                 THEN apply_setbacks_area(p, p.min_front_setback, p.min_back_setback,
                                          p.min_side_setback)
                 ELSE 0
        m == Min3(p.min_front_setback, p.min_back_setback, p.min_side_setback)
        buffered == IF m > 0
                    THEN (IF p.lot_depth - 2 * m > 0 /\ p.lot_width - 2 * m > 0
                          THEN (p.lot_depth - 2 * m) * (p.lot_width - 2 * m) ELSE 0)
                    ELSE lot
        fp == IF faced > 0 THEN faced ELSE buffered
    IN  IF lot = 0 THEN 0 ELSE IF fp = 0 THEN lot ELSE fp

\* ------------------------------------------------------------- Building
\* Building.__init__: a Building without floors.  achieved_far and
\* achieved_lot_coverage hold the numerator over lot_area_m2.
NewBuilding(p, name, footprint) ==
    [shape_name |-> name, custom_footprint |-> footprint, floors |-> <<>>,
     total_built_area_m2 |-> 0, total_height_m |-> 0, achieved_far |-> 0,
     achieved_lot_coverage |-> 0, num_floors |-> 0]

\* top_height left at the base height
NewFloor_flat(n, base, h, area, vsb, back, front, side) ==
    [floor_number |-> n, base_height |-> base, top_height |-> base,
     floor_height_m |-> h, floor_area_m2 |-> area, has_vertical_setback |-> vsb,
     applied_back_setback_amount |-> back, applied_front_setback_amount |-> front,
     applied_side_setback_amount |-> side]

\* Floor.__init__
NewFloor(n, base, h, area, vsb, back, front, side) ==
    [floor_number |-> n, base_height |-> base, top_height |-> base + h,
     floor_height_m |-> h, floor_area_m2 |-> area, has_vertical_setback |-> vsb,
     applied_back_setback_amount |-> back, applied_front_setback_amount |-> front,
     applied_side_setback_amount |-> side]

\* the last floor left out of the sums
calculate_final_metrics_short(p, b) ==
    IF b.floors = <<>>
    THEN [b EXCEPT !.total_built_area_m2 = 0, !.total_height_m = 0, !.achieved_far = 0,
                   !.achieved_lot_coverage = 0, !.num_floors = 0]
    ELSE LET but_last == SubSeq(b.floors, 1, Len(b.floors) - 1)
         IN  [b EXCEPT !.total_built_area_m2 = SumAreas(but_last),
                       !.num_floors = Len(b.floors),
                       !.total_height_m = b.floors[Len(b.floors)].top_height,
                       !.achieved_far = IF lot_area_m2(p) > 0 THEN SumAreas(but_last) ELSE 0,
                       !.achieved_lot_coverage =
                            IF lot_area_m2(p) > 0 THEN b.floors[1].floor_area_m2 ELSE 0]

\* Building._calculate_final_metrics
calculate_final_metrics(p, b) ==
    IF b.floors = <<>>
    THEN [b EXCEPT !.total_built_area_m2 = 0, !.total_height_m = 0, !.achieved_far = 0,
                   !.achieved_lot_coverage = 0, !.num_floors = 0]
    ELSE [b EXCEPT !.total_built_area_m2 = SumAreas(b.floors),
                   !.num_floors = Len(b.floors),
                   !.total_height_m = b.floors[Len(b.floors)].top_height,
                   !.achieved_far = IF lot_area_m2(p) > 0 THEN SumAreas(b.floors) ELSE 0,
                   !.achieved_lot_coverage =
                        IF lot_area_m2(p) > 0 THEN b.floors[1].floor_area_m2 ELSE 0]

\* ------------------------------------------- the tests of generate_floors
floor_specific_height(p, n) == IF n = 0 THEN p.gf_floor_height ELSE p.uf_floor_height

\* the test made on the base of the floor instead of its top
height_exceeded_base(p, top) == (top - p.uf_floor_height) * 10000 > p.max_height * 10001

\* the height limit doubled
height_exceeded_double(p, top) == top * 10000 > p.max_height * 20000

\* line 191: current_height_m + floor_specific_height > max_height_param * 1.0001
height_exceeded(p, top) == top * 10000 > p.max_height * 10001

\* the progressive setback starting one floor late
has_vertical_setback_this_floor_late(p, n) ==
    n > p.min_setback_start_floor /\ p.back_setback_percent > 0

\* line 202
has_vertical_setback_this_floor(p, n) ==
    n >= p.min_setback_start_floor /\ p.back_setback_percent > 0

\* line 204: current_height_m * back_setback_percent (the percent is in 1/5000)
additional_back_setback(p, h) == (h * p.back_setback_percent) \div 5000

current_total_back_setback(p, n, h) ==
    IF has_vertical_setback_this_floor(p, n)
    THEN p.min_back_setback + additional_back_setback(p, h)
    ELSE p.min_back_setback

\* line 179: the custom footprint, or footprint_polygon when it is empty
base_geometry_area(p, b) ==
    IF b.custom_footprint > 0 THEN b.custom_footprint ELSE base_footprint_area(p)

\* lines 194-221: area of current_floor_geometry; 0 when the re-derived envelope is
\* None or empty
current_floor_area(p, b, n, h) ==
    IF has_vertical_setback_this_floor(p, n)
    THEN apply_setbacks_area(p, p.min_front_setback, current_total_back_setback(p, n, h),
                             p.min_side_setback)
    ELSE base_geometry_area(p, b)

\* max_far_param + 1.001 in place of max_far_param * 1.001
far_exceeded_plus(p, built) ==
    lot_area_m2(p) > 0 /\ built * 2000 > (p.max_far * 1000 + 2002) * lot_area_m2(p)

\* line 223: (current_built_area_m2 + floor_area_m2) / lot_area_m2 > max_far_param * 1.001
far_exceeded(p, built) ==
    lot_area_m2(p) > 0 /\ built * 2000 > p.max_far * 1001 * lot_area_m2(p)

\* the ground floor held to the minimum like every other floor
below_min_floor_area_every_floor(p, n, area) ==
    area < p.min_floor_area

\* lines 226-228: min_floor_area test.  Areas and min_floor_area count area units,
\* area_unit of them to the square metre, so floor_area <= 0.01 is
\* area * 100 <= area_unit.
below_min_floor_area(p, n, area) ==
    area < p.min_floor_area /\ (n > 0 \/ area * 100 <= p.area_unit)

\* ---------------------------------------------------------- is_compliant
\* lines 322, 325, 328, with tolerance = 1.001
height_violation(p, b) == b.total_height_m * 1000 > p.max_height * 1001

far_violation(p, b) ==
    IF lot_area_m2(p) > 0
    THEN b.achieved_far * 2000 > p.max_far * 1001 * lot_area_m2(p)
    ELSE 0 > p.max_far * 1001

coverage_violation(p, b) ==
    IF lot_area_m2(p) > 0
    THEN b.achieved_lot_coverage * 2 * 1000 > p.max_lot_coverage * 1001 * lot_area_m2(p)
    ELSE 0 > p.max_lot_coverage * 1001

\* the three tests chained with elif: only the first breach is recorded
is_compliant_elif(p, b) ==
    LET violations ==
            IF height_violation(p, b) THEN <<"Altura excedida">>
            ELSE IF far_violation(p, b) THEN <<"FAR excedido">>
            ELSE IF coverage_violation(p, b) THEN <<"Taxa de Ocupacao excedida">>
            ELSE <<>>
    IN  <<violations = <<>>, violations>>

\* Building.is_compliant: <<compliant, violations>>
is_compliant(p, b) ==
    LET violations ==
            (IF height_violation(p, b) THEN <<"Altura excedida">> ELSE <<>>)
         \o (IF far_violation(p, b) THEN <<"FAR excedido">> ELSE <<>>)
         \o (IF coverage_violation(p, b) THEN <<"Taxa de Ocupacao excedida">> ELSE <<>>)
    IN  <<violations = <<>>, violations>>

\* ------------------------------------------------------------- scores
\* A score is -infinity or a number; val is the number times ScoreScale(p).
NegInf == [inf |-> TRUE, val |-> 0]
Finite(v) == [inf |-> FALSE, val |-> v]

\* a >= b in place of a > b
ScoreGT_ge(a, b) == IF b.inf THEN TRUE ELSE IF a.inf THEN FALSE ELSE a.val >= b.val

\* a < b in place of a > b
ScoreGT_lt(a, b) == IF b.inf THEN ~a.inf ELSE IF a.inf THEN FALSE ELSE a.val < b.val

\* Python's a > b on floats
ScoreGT(a, b) == IF a.inf THEN FALSE ELSE IF b.inf THEN TRUE ELSE a.val > b.val
ScoreGE(a, b) == a = b \/ ScoreGT(a, b)

LotScale(p) == IF lot_area_m2(p) > 0 THEN lot_area_m2(p) ELSE 1
HeightScale(p) == IF p.max_height > 0 THEN p.max_height ELSE 1
ScoreScale(p) == LotScale(p) * HeightScale(p)

\* the height term added whatever the height ratio
score_building_height_always(p, b) ==
    LET ic == is_compliant(p, b)
        compliant == ic[1]
        violations == ic[2]
        S == ScoreScale(p)
        farS == b.achieved_far * HeightScale(p)          \* achieved_far * S
        ratioS == IF p.max_height > 0 THEN b.total_height_m * LotScale(p) ELSE 0
        ratio_le_1 == IF p.max_height > 0 THEN b.total_height_m <= p.max_height ELSE TRUE
        base == IF compliant THEN 0 ELSE 0 - 1000 * Len(violations) * S
        far_over == IF lot_area_m2(p) > 0
                    THEN 2 * b.achieved_far > p.max_far * lot_area_m2(p)
                    ELSE 0 > p.max_far
        score ==
            IF p.optimization_objective = "maximize_far_within_height"
            THEN IF compliant
                 THEN base + farS * 100 + ratioS * 10
                 ELSE base
                      - (IF b.total_height_m > p.max_height
                         THEN (b.total_height_m - p.max_height) * 5 * S ELSE 0)
                      - (IF far_over THEN (2 * farS - p.max_far * S) * 25 ELSE 0)
            ELSE IF compliant THEN base + farS * 100 ELSE base
        metrics == [shape_name |-> b.shape_name, num_floors |-> b.num_floors,
                    total_height_m |-> b.total_height_m,
                    total_built_area_m2 |-> b.total_built_area_m2,
                    achieved_far |-> b.achieved_far,
                    achieved_lot_coverage |-> b.achieved_lot_coverage,
                    is_compliant |-> compliant, violations |-> violations,
                    evaluation_score |-> Finite(score)]
    IN  <<Finite(score), metrics>>

\* -1000 once, not once per violation
score_building_flat_penalty(p, b) ==
    LET ic == is_compliant(p, b)
        compliant == ic[1]
        violations == ic[2]
        S == ScoreScale(p)
        farS == b.achieved_far * HeightScale(p)          \* achieved_far * S
        ratioS == IF p.max_height > 0 THEN b.total_height_m * LotScale(p) ELSE 0
        ratio_le_1 == IF p.max_height > 0 THEN b.total_height_m <= p.max_height ELSE TRUE
        base == IF compliant THEN 0 ELSE 0 - 1000 * S
        far_over == IF lot_area_m2(p) > 0
                    THEN 2 * b.achieved_far > p.max_far * lot_area_m2(p)
                    ELSE 0 > p.max_far
        score ==
            IF p.optimization_objective = "maximize_far_within_height"
            THEN IF compliant
                 THEN base + farS * 100 + (IF ratio_le_1 THEN ratioS * 10 ELSE 0)
                 ELSE base
                      - (IF b.total_height_m > p.max_height
                         THEN (b.total_height_m - p.max_height) * 5 * S ELSE 0)
                      - (IF far_over THEN (2 * farS - p.max_far * S) * 25 ELSE 0)
            ELSE IF compliant THEN base + farS * 100 ELSE base
        metrics == [shape_name |-> b.shape_name, num_floors |-> b.num_floors,
                    total_height_m |-> b.total_height_m,
                    total_built_area_m2 |-> b.total_built_area_m2,
                    achieved_far |-> b.achieved_far,
                    achieved_lot_coverage |-> b.achieved_lot_coverage,
                    is_compliant |-> compliant, violations |-> violations,
                    evaluation_score |-> Finite(score)]
    IN  <<Finite(score), metrics>>

\* 1000 added, not subtracted, per violation
score_building_bonus(p, b) ==
    LET ic == is_compliant(p, b)
        compliant == ic[1]
        violations == ic[2]
        S == ScoreScale(p)
        farS == b.achieved_far * HeightScale(p)          \* achieved_far * S
        ratioS == IF p.max_height > 0 THEN b.total_height_m * LotScale(p) ELSE 0
        ratio_le_1 == IF p.max_height > 0 THEN b.total_height_m <= p.max_height ELSE TRUE
        base == IF compliant THEN 0 ELSE 1000 * Len(violations) * S
        far_over == IF lot_area_m2(p) > 0
                    THEN 2 * b.achieved_far > p.max_far * lot_area_m2(p)
                    ELSE 0 > p.max_far
        score ==
            IF p.optimization_objective = "maximize_far_within_height"
            THEN IF compliant
                 THEN base + farS * 100 + (IF ratio_le_1 THEN ratioS * 10 ELSE 0)
                 ELSE base
                      - (IF b.total_height_m > p.max_height
                         THEN (b.total_height_m - p.max_height) * 5 * S ELSE 0)
                      - (IF far_over THEN (2 * farS - p.max_far * S) * 25 ELSE 0)
            ELSE IF compliant THEN base + farS * 100 ELSE base
        metrics == [shape_name |-> b.shape_name, num_floors |-> b.num_floors,
                    total_height_m |-> b.total_height_m,
                    total_built_area_m2 |-> b.total_built_area_m2,
                    achieved_far |-> b.achieved_far,
                    achieved_lot_coverage |-> b.achieved_lot_coverage,
                    is_compliant |-> compliant, violations |-> violations,
                    evaluation_score |-> Finite(score)]
    IN  <<Finite(score), metrics>>

\* evaluate_building lines 25-54: the score and the metrics of a massing
score_building(p, b) ==
    LET ic == is_compliant(p, b)
        compliant == ic[1]
        violations == ic[2]
        S == ScoreScale(p)
        farS == b.achieved_far * HeightScale(p)          \* achieved_far * S
        ratioS == IF p.max_height > 0 THEN b.total_height_m * LotScale(p) ELSE 0
        ratio_le_1 == IF p.max_height > 0 THEN b.total_height_m <= p.max_height ELSE TRUE
        base == IF compliant THEN 0 ELSE 0 - 1000 * Len(violations) * S
        far_over == IF lot_area_m2(p) > 0
                    THEN 2 * b.achieved_far > p.max_far * lot_area_m2(p)
                    ELSE 0 > p.max_far
        score ==
            IF p.optimization_objective = "maximize_far_within_height"
            THEN IF compliant
                 THEN base + farS * 100 + (IF ratio_le_1 THEN ratioS * 10 ELSE 0)
                 ELSE base
                      - (IF b.total_height_m > p.max_height
                         THEN (b.total_height_m - p.max_height) * 5 * S ELSE 0)
                      - (IF far_over THEN (2 * farS - p.max_far * S) * 25 ELSE 0)
            ELSE IF compliant THEN base + farS * 100 ELSE base
        metrics == [shape_name |-> b.shape_name, num_floors |-> b.num_floors,
                    total_height_m |-> b.total_height_m,
                    total_built_area_m2 |-> b.total_built_area_m2,
                    achieved_far |-> b.achieved_far,
                    achieved_lot_coverage |-> b.achieved_lot_coverage,
                    is_compliant |-> compliant, violations |-> violations,
                    evaluation_score |-> Finite(score)]
    IN  <<Finite(score), metrics>>

\* the test of lines 21-23 left out
evaluate_building_unguarded(p, b) == score_building(p, b)

\* BuildingEvaluator.evaluate_building: <<score, eval_metrics>>
evaluate_building(p, b) ==
    IF b.floors = <<>>
    THEN <<NegInf, [error |-> "Edificacao invalida ou sem pavimentos"]>>
    ELSE score_building(p, b)

\* ------------------------------------------------- components not in use
\* CheckpointManager.__init__, and nothing called on it
CheckpointIdle ==
    /\ processed_lots = {}
    /\ failed_lots = {}
    /\ results = {}
    /\ checkpoint_files = {}
    /\ pending_lots = <<>>
    /\ checkpoint_calls = <<>>

\* an AppParams whose configuration file is empty, and no update_for_lot
AppParamsIdle ==
    /\ base_params = {}
    /\ current_params = {}
    /\ lot_overrides = <<>>

\* run_modeling_pipeline not started
PipelineIdle ==
    /\ all_lots_data = <<>>
    /\ lot_idx = 0
    /\ overall_summary_data = <<>>
    /\ attempted = {}
    /\ baseline_building = None
    /\ best_shape_building = None
    /\ exported = <<>>

\* ------------------------------------------------------------------ Init
ParamsSet ==
    {[max_height |-> mh, max_far |-> mf, max_lot_coverage |-> mc,
      gf_floor_height |-> gf, uf_floor_height |-> uf, min_floor_area |-> ma,
      min_front_setback |-> 0, min_back_setback |-> 0, min_side_setback |-> 0,
      back_setback_percent |-> r[1], min_setback_start_floor |-> r[2], has_faces |-> r[3],
      lot_depth |-> ld, lot_width |-> lw,
      optimization_objective |-> "maximize_far_within_height", area_unit |-> 1] :
        mh \in MaxHeights, mf \in MaxFars, mc \in MaxLotCoverages,
        gf \in GfFloorHeights, uf \in UfFloorHeights, ma \in MinFloorAreas,
        r \in VerticalSetbackRegimes, ld \in LotDepths, lw \in LotWidths}

\* GridSearchOptimizer.__init__ after Building.__init__ of the base model.  A
\* generator returns no shape when the base footprint is empty.
Init ==
    /\ params \in ParamsSet
    /\ footprint_polygon = base_footprint_area(params)
    /\ shapes \in [GeneratorIds -> SeqsUpTo(CandidateAreas, MaxCandidates)]
    /\ base_footprint_area(params) = 0 => \A g \in GeneratorIds : shapes[g] = <<>>
    /\ \A g \in GeneratorIds : \A i \in 1..Len(shapes[g]) :
            shapes[g][i] <= base_footprint_area(params)
    /\ pc = "idle"
    /\ gen_idx = 0
    /\ cand_idx = 0
    /\ best_building_solution = None
    /\ best_score = NegInf
    /\ all_evaluated_solutions = <<>>
    /\ current_building = None
    /\ current_height_m = 0
    /\ current_built_area_m2 = 0
    /\ floor_num = 0
    /\ stop_reason = "none"
    /\ compliance = None
    /\ evaluation = None
    /\ runs = 0
    /\ returned = <<>>
    /\ summaries = <<>>
    /\ previous_floors = <<>>
    /\ base_footprint = {}
    /\ shape_ratio_steps = <<>>
    /\ grid_generator = None
    /\ generated = <<>>
    /\ CheckpointIdle
    /\ AppParamsIdle
    /\ PipelineIdle

\* ------------------------------------------------------ run_optimization
\* line 39 left out: the log of the previous run is kept
StartOptimization_keep_log ==
    /\ pc \in {"idle", "done"}
    /\ runs < MaxRuns
    /\ best_building_solution' = None
    /\ best_score' = NegInf
    /\ all_evaluated_solutions' = all_evaluated_solutions
    /\ gen_idx' = 1
    /\ cand_idx' = 0
    /\ pc' = "generator"
    /\ current_building' = None
    /\ UNCHANGED <<extVars, genVars, params, footprint_polygon, shapes, loopVars, stop_reason, compliance, evaluation, runVars>>

\* lines 36-39: (re)start of run_optimization
StartOptimization ==
    /\ pc \in {"idle", "done"}
    /\ runs < MaxRuns
    /\ best_building_solution' = None
    /\ best_score' = NegInf
    /\ all_evaluated_solutions' = <<>>
    /\ gen_idx' = 1
    /\ cand_idx' = 0
    /\ pc' = "generator"
    /\ current_building' = None
    /\ UNCHANGED <<extVars, genVars, params, footprint_polygon, shapes, loopVars, stop_reason, compliance, evaluation, runVars>>

\* lines 43-47: the generator produced no shape
GeneratorEmpty ==
    /\ pc = "generator"
    /\ gen_idx \in GeneratorIds
    /\ shapes[gen_idx] = <<>>
    /\ gen_idx' = gen_idx + 1
    /\ UNCHANGED <<extVars, genVars, params, footprint_polygon, shapes, pc, cand_idx, optVars, current_building, loopVars,
                   stop_reason, compliance, evaluation, runVars>>

\* lines 43-50: the generator produced candidates
GeneratorShapes ==
    /\ pc = "generator"
    /\ gen_idx \in GeneratorIds
    /\ shapes[gen_idx] # <<>>
    /\ cand_idx' = 1
    /\ pc' = "candidate"
    /\ UNCHANGED <<extVars, genVars, params, footprint_polygon, shapes, gen_idx, optVars, current_building, loopVars,
                   stop_reason, compliance, evaluation, runVars>>

\* line 52 and generate_floors lines 175-186: a new Building for the candidate, the
\* floor list emptied, the loop about to start (or over at once on an empty base)
GenerateBuildingFromShape ==
    /\ pc = "candidate"
    /\ LET b == NewBuilding(params, <<gen_idx, cand_idx>>, shapes[gen_idx][cand_idx])
       IN  IF base_geometry_area(params, b) = 0
           THEN /\ current_building' = calculate_final_metrics(params, b)
                /\ pc' = "built"
                /\ stop_reason' = "empty_base"
           ELSE /\ current_building' = b
                /\ pc' = "stack"
                /\ stop_reason' = "none"
    /\ current_height_m' = 0
    /\ current_built_area_m2' = 0
    /\ floor_num' = 0
    /\ previous_floors' = <<>>
    /\ UNCHANGED <<extVars, genVars, params, footprint_polygon, shapes, gen_idx, cand_idx, optVars, compliance, evaluation, runVars>>

\* what the loop of generate_floors is about to test
NextTop == current_height_m + floor_specific_height(params, floor_num)
NextArea == current_floor_area(params, current_building, floor_num, current_height_m)

\* a break of the loop: _calculate_final_metrics and return (lines 245-246)
StopStacking(reason) ==
    /\ current_building' = calculate_final_metrics(params, current_building)
    /\ pc' = "built"
    /\ stop_reason' = reason
    /\ UNCHANGED <<extVars, genVars, params, footprint_polygon, shapes, gen_idx, cand_idx, optVars, loopVars, compliance,
                   evaluation, runVars>>

\* lines 191-192
BreakHeight ==
    /\ pc = "stack"
    /\ height_exceeded(params, NextTop)
    /\ StopStacking("height")

\* lines 215-219: the re-derived envelope is None or empty
BreakVerticalSetback ==
    /\ pc = "stack"
    /\ ~height_exceeded(params, NextTop)
    /\ has_vertical_setback_this_floor(params, floor_num)
    /\ NextArea = 0
    /\ StopStacking("vertical_setback")

GeometryOk == has_vertical_setback_this_floor(params, floor_num) => NextArea > 0

\* lines 223-224
BreakFAR ==
    /\ pc = "stack"
    /\ ~height_exceeded(params, NextTop)
    /\ GeometryOk
    /\ far_exceeded(params, current_built_area_m2 + NextArea)
    /\ StopStacking("far")

\* lines 226-230
BreakMinArea ==
    /\ pc = "stack"
    /\ ~height_exceeded(params, NextTop)
    /\ GeometryOk
    /\ ~far_exceeded(params, current_built_area_m2 + NextArea)
    /\ below_min_floor_area(params, floor_num, NextArea)
    /\ StopStacking("min_floor_area")

\* lines 232-243
CommitFloor ==
    /\ pc = "stack"
    /\ ~height_exceeded(params, NextTop)
    /\ GeometryOk
    /\ ~far_exceeded(params, current_built_area_m2 + NextArea)
    /\ ~below_min_floor_area(params, floor_num, NextArea)
    /\ current_building' =
          [current_building EXCEPT !.floors =
              Append(@, NewFloor(floor_num, current_height_m,
                                 floor_specific_height(params, floor_num), NextArea,
                                 has_vertical_setback_this_floor(params, floor_num),
                                 current_total_back_setback(params, floor_num,
                                                            current_height_m),
                                 params.min_front_setback, params.min_side_setback))]
    /\ current_built_area_m2' = current_built_area_m2 + NextArea
    /\ current_height_m' = NextTop
    /\ floor_num' = floor_num + 1
    /\ UNCHANGED <<extVars, genVars, params, footprint_polygon, shapes, pc, gen_idx, cand_idx, optVars,
                   stop_reason, compliance, evaluation, runVars, previous_floors>>

\* the two for loops: next candidate, or next generator
Advance ==
    IF cand_idx < Len(shapes[gen_idx])
    THEN cand_idx' = cand_idx + 1 /\ pc' = "candidate" /\ UNCHANGED gen_idx
    ELSE gen_idx' = gen_idx + 1 /\ pc' = "generator" /\ UNCHANGED cand_idx

\* line 54: not current_building or not current_building.floors
generation_failed(b) == b.floors = <<>>

\* lines 54-59
CandidateFailed ==
    /\ pc = "built"
    /\ generation_failed(current_building)
    /\ all_evaluated_solutions' =
          Append(all_evaluated_solutions,
                 [error |-> "Falha na geracao", shape_name |-> current_building.shape_name])
    /\ Advance
    /\ UNCHANGED <<extVars, genVars, params, footprint_polygon, shapes, best_building_solution, best_score, current_building,
                   loopVars, stop_reason, compliance, evaluation, runVars>>

\* lines 61-70
EvaluateCandidate ==
    /\ pc = "built"
    /\ ~generation_failed(current_building)
    /\ LET ev == evaluate_building(params, current_building)
       IN  /\ all_evaluated_solutions' = Append(all_evaluated_solutions, ev[2])
           /\ evaluation' = ev
           /\ compliance' = (IF current_building.floors = <<>> THEN compliance
                             ELSE is_compliant(params, current_building))
           /\ IF ScoreGT(ev[1], best_score)
              THEN best_score' = ev[1] /\ best_building_solution' = current_building
              ELSE UNCHANGED <<best_score, best_building_solution>>
    /\ Advance
    /\ UNCHANGED <<extVars, genVars, params, footprint_polygon, shapes, current_building, loopVars, stop_reason, runVars>>

\* the massing built last returned in place of the best one
ReturnValue_current == current_building

\* line 74: what run_optimization returns
ReturnValue == best_building_solution

\* lines 72-74
FinishOptimization ==
    /\ pc = "generator"
    /\ gen_idx \notin GeneratorIds
    /\ pc' = "done"
    /\ runs' = runs + 1
    /\ returned' = Append(returned, ReturnValue)
    /\ summaries' = Append(summaries, <<best_score, all_evaluated_solutions>>)
    /\ UNCHANGED <<extVars, genVars, params, footprint_polygon, shapes, gen_idx, cand_idx, optVars, current_building, loopVars,
                   stop_reason, compliance, evaluation>>

Next ==
    \/ StartOptimization
    \/ GeneratorEmpty
    \/ GeneratorShapes
    \/ GenerateBuildingFromShape
    \/ BreakHeight
    \/ BreakVerticalSetback
    \/ BreakFAR
    \/ BreakMinArea
    \/ CommitFloor
    \/ CandidateFailed
    \/ EvaluateCandidate
    \/ FinishOptimization

Spec == Init /\ [][Next]_vars

\* ================================================================ claims
\* the entries of the log that carry an evaluation score
ScoredIdx ==
    {i \in 1..Len(all_evaluated_solutions) :
        "evaluation_score" \in DOMAIN all_evaluated_solutions[i]}
LoggedScore(i) == all_evaluated_solutions[i].evaluation_score.val

\* <<g, i>> before <<h, j>> in generator order, then candidate order
Before(a, b) == a[1] < b[1] \/ (a[1] = b[1] /\ a[2] < b[2])

\* every massing whose final metrics have been computed
Massings ==
    (IF pc \in {"built", "generator", "candidate", "done"} /\ current_building # None
     THEN {current_building} ELSE {})
    \cup (IF best_building_solution # None THEN {best_building_solution} ELSE {})

\* every floor list, also while it is being stacked
FloorLists ==
    (IF current_building # None THEN {current_building.floors} ELSE {})
    \cup (IF best_building_solution # None THEN {best_building_solution.floors} ELSE {})

\* C1: at every point of a run the retained massing is the candidate that was
\* logged first among those with the highest score so far (an equal later score
\* never replaces it), the log follows generator order then candidate order, and
\* every repetition of the run returns the same massing.
C1_FirstMaxWins ==
    /\ \A i \in ScoredIdx :
          (\A j \in ScoredIdx : LoggedScore(i) >= LoggedScore(j)
                                /\ (LoggedScore(j) = LoggedScore(i) => i <= j))
          => /\ best_building_solution # None
             /\ best_building_solution.shape_name = all_evaluated_solutions[i].shape_name
    /\ \A i, j \in 1..Len(all_evaluated_solutions) :
          i < j => Before(all_evaluated_solutions[i].shape_name,
                          all_evaluated_solutions[j].shape_name)
    /\ \A i, j \in 1..Len(returned) : returned[i] = returned[j]

\* two candidates tie at the maximum, the first one is retained, the run was repeated
C1_Witness ==
    /\ pc = "done"
    /\ runs = 2
    /\ \E i, j \in ScoredIdx :
          /\ i < j
          /\ LoggedScore(i) = LoggedScore(j)
          /\ LoggedScore(i) = best_score.val
          /\ best_building_solution.shape_name = all_evaluated_solutions[i].shape_name

\* C2: when run_optimization finishes, best_score is the maximum of the logged
\* evaluation scores and best_building_solution is a massing with that score.
C2_BestScoreIsMax ==
    pc = "done" =>
        IF ScoredIdx = {}
        THEN best_score = NegInf /\ best_building_solution = None
        ELSE /\ ~best_score.inf
             /\ \E i \in ScoredIdx : LoggedScore(i) = best_score.val
             /\ \A i \in ScoredIdx : LoggedScore(i) <= best_score.val
             /\ best_building_solution # None
             /\ evaluate_building(params, best_building_solution)[1] = best_score

\* a finished run that logged two different scores
C2_Witness ==
    /\ pc = "done"
    /\ \E i, j \in ScoredIdx : LoggedScore(i) < LoggedScore(j)
    /\ \E i, j \in ScoredIdx : i < j /\ LoggedScore(i) > LoggedScore(j)

\* C3: the total height of every massing is the top of its last floor and is at
\* most max_height * 1.001.
C3_HeightCap ==
    \A b \in Massings :
        /\ b.total_height_m * 1000 <= params.max_height * 1001
        /\ b.floors # <<>> => b.total_height_m = b.floors[Len(b.floors)].top_height

\* a massing whose height lies above max_height, inside the tolerance
C3_Witness ==
    /\ pc = "built"
    /\ current_building.floors # <<>>
    /\ current_building.total_height_m > params.max_height

\* C4: the floors of every massing are contiguous from height 0, strictly
\* increasing, and numbered 0, 1, 2, ... in order.
C4_FloorsContiguous ==
    \A fs \in FloorLists :
        \A i \in 1..Len(fs) :
            /\ fs[i].floor_number = i - 1
            /\ i = 1 => fs[i].base_height = 0
            /\ i > 1 => /\ fs[i].base_height = fs[i - 1].top_height
                        /\ fs[i].base_height > fs[i - 1].base_height

\* a massing with three floors
C4_Witness ==
    /\ pc = "built"
    /\ Len(current_building.floors) = 3

\* C5: the achieved FAR of every massing (sum of the floor areas over the parcel
\* area) is at most max_far * 1.001.
C5_FarCap ==
    \A b \in Massings :
        /\ b.achieved_far = SumAreas(b.floors)
        /\ b.achieved_far * 2000 <= params.max_far * 1001 * lot_area_m2(params)

\* a massing stopped by the FAR test, with its FAR exactly at max_far
C5_Witness ==
    /\ pc = "built"
    /\ stop_reason = "far"
    /\ current_building.floors # <<>>
    /\ 2 * current_building.achieved_far = params.max_far * lot_area_m2(params)

LastFloor(b) == b.floors[Len(b.floors)]

\* C6 (as stated): one more floor of the last floor's area would exceed
\* max_far * 1.001, for every massing with at least one floor.
C6_OneMoreFloorExceedsFar ==
    \A b \in Massings :
        b.floors # <<>> =>
            (b.total_built_area_m2 + LastFloor(b).floor_area_m2) * 2000
                > params.max_far * 1001 * lot_area_m2(params)

\* C6 (amended): when the stacking was stopped by the FAR test, on a refused
\* floor that is not larger than the last committed floor, one more floor of the
\* last floor's area would exceed max_far * 1.001.
C6_FarStopExceedsFar ==
    (/\ pc = "built"
     /\ stop_reason = "far"
     /\ current_building.floors # <<>>
     /\ NextArea <= LastFloor(current_building).floor_area_m2)
    => (current_building.total_built_area_m2 + LastFloor(current_building).floor_area_m2)
            * 2000 > params.max_far * 1001 * lot_area_m2(params)

\* a massing of two floors stopped by the FAR test
C6_Witness ==
    /\ pc = "built"
    /\ stop_reason = "far"
    /\ Len(current_building.floors) = 2
    /\ NextArea <= LastFloor(current_building).floor_area_m2

\* C7: generate_floors refuses a floor reaching height h exactly when is_compliant
\* reports a massing of total height h as a height violation, and likewise for
\* the cumulative FAR.
C7_SameTolerance ==
    pc = "stack" =>
        /\ height_exceeded(params, NextTop)
              <=> height_violation(params, [current_building EXCEPT
                                                !.total_height_m = NextTop])
        /\ far_exceeded(params, current_built_area_m2 + NextArea)
              <=> far_violation(params, [current_building EXCEPT
                                            !.achieved_far = current_built_area_m2 + NextArea])

\* C8: when no candidate yields a massing with floors, run_optimization returns
\* None.
C8_NoneWhenNoFloors ==
    (pc = "done" /\ ScoredIdx = {})
    => /\ returned[Len(returned)] = None
       /\ best_building_solution = None

\* a finished run whose candidates all failed
C8_Witness ==
    /\ pc = "done"
    /\ all_evaluated_solutions # <<>>
    /\ ScoredIdx = {}
    /\ returned[Len(returned)] = None

\* C9: a massing without floors evaluates to minus infinity, and the retained
\* massing is at every point None or a massing with at least one floor.
C9_ZeroFloorsNeverSelected ==
    /\ best_building_solution # None => best_building_solution.floors # <<>>
    /\ \A b \in Massings :
          b.floors = <<>> => evaluate_building(params, b)[1] = [inf |-> TRUE, val |-> 0]

\* a run in which one candidate has no floors and another one is retained
C9_Witness ==
    /\ pc = "built"
    /\ current_building.floors = <<>>
    /\ best_building_solution # None

\* ------------------------------------------- is_compliant on any massing
\* is_compliant reads total_height_m, achieved_far and achieved_lot_coverage of a
\* Building and the three limits; here they are drawn around the limits, on a
\* parcel of area 1000.
ComplianceParams ==
    {[max_height |-> 10000, max_far |-> mf, max_lot_coverage |-> mc,
      gf_floor_height |-> 5000, uf_floor_height |-> 5000, min_floor_area |-> 1,
      min_front_setback |-> 0, min_back_setback |-> 0, min_side_setback |-> 0,
      back_setback_percent |-> 0, min_setback_start_floor |-> 3, has_faces |-> TRUE,
      lot_depth |-> 1000, lot_width |-> 1,
      optimization_objective |-> "maximize_far_within_height", area_unit |-> 1] :
        mf \in MaxFars, mc \in MaxLotCoverages}

ComplianceMassings ==
    {[shape_name |-> <<1, 1>>, custom_footprint |-> c,
      floors |-> <<NewFloor(0, 0, h, c, FALSE, 0, 0, 0)>>,
      total_built_area_m2 |-> f, total_height_m |-> h, achieved_far |-> f,
      achieved_lot_coverage |-> c, num_floors |-> 1] :
        h \in {10000, 10010, 10011}, f \in {500, 501, 1001, 1002},
        c \in {500, 501, 1001, 1002}}

InitCompliance ==
    /\ params \in ComplianceParams
    /\ footprint_polygon = base_footprint_area(params)
    /\ current_building \in ComplianceMassings
    /\ shapes = [g \in GeneratorIds |-> <<>>]
    /\ pc = "is_compliant"
    /\ gen_idx = 0
    /\ cand_idx = 0
    /\ best_building_solution = None
    /\ best_score = NegInf
    /\ all_evaluated_solutions = <<>>
    /\ current_height_m = 0
    /\ current_built_area_m2 = 0
    /\ floor_num = 0
    /\ stop_reason = "none"
    /\ compliance = None
    /\ evaluation = None
    /\ runs = 0
    /\ returned = <<>>
    /\ summaries = <<>>
    /\ previous_floors = <<>>
    /\ base_footprint = {}
    /\ shape_ratio_steps = <<>>
    /\ grid_generator = None
    /\ generated = <<>>
    /\ CheckpointIdle
    /\ AppParamsIdle
    /\ PipelineIdle

\* a call of Building.is_compliant
CallIsCompliant ==
    /\ pc = "is_compliant"
    /\ compliance' = is_compliant(params, current_building)
    /\ pc' = "checked"
    /\ UNCHANGED <<extVars, genVars, params, footprint_polygon, shapes, gen_idx, cand_idx, optVars, current_building, loopVars,
                   stop_reason, evaluation, runVars>>

NextCompliance == CallIsCompliant

SpecCompliance == InitCompliance /\ [][NextCompliance]_vars

\* the three limits, each within the tolerance 1.001 (ratios over the parcel area
\* by cross-multiplication)
HeightWithin(p, b) == b.total_height_m * 1000 <= p.max_height * 1001
FarWithin(p, b) == b.achieved_far * 2000 <= p.max_far * 1001 * lot_area_m2(p)
CoverageWithin(p, b) ==
    b.achieved_lot_coverage * 2000 <= p.max_lot_coverage * 1001 * lot_area_m2(p)
Breaches(p, b) ==
    (IF HeightWithin(p, b) THEN 0 ELSE 1) + (IF FarWithin(p, b) THEN 0 ELSE 1)
        + (IF CoverageWithin(p, b) THEN 0 ELSE 1)

\* C10: is_compliant reports compliant exactly when the three limits hold within
\* the tolerance; the violation list has one entry per breached limit and is
\* empty when compliant.
C10_CompliantIffWithinLimits ==
    compliance # None =>
        /\ compliance[1] <=> (/\ HeightWithin(params, current_building)
                              /\ FarWithin(params, current_building)
                              /\ CoverageWithin(params, current_building))
        /\ Len(compliance[2]) = Breaches(params, current_building)
        /\ compliance[1] <=> compliance[2] = <<>>
        /\ HeightWithin(params, current_building)
              <=> \A i \in 1..Len(compliance[2]) : compliance[2][i] # "Altura excedida"
        /\ FarWithin(params, current_building)
              <=> \A i \in 1..Len(compliance[2]) : compliance[2][i] # "FAR excedido"
        /\ CoverageWithin(params, current_building)
              <=> \A i \in 1..Len(compliance[2]) :
                      compliance[2][i] # "Taxa de Ocupacao excedida"

\* a massing that breaches the three limits, each by the smallest step
C10_Witness ==
    /\ pc = "checked"
    /\ Len(compliance[2]) = 3
    /\ current_building.total_height_m = 10011

\* --------------------------------------- evaluate_building on any massing
\* evaluate_building reads the floors, total_height_m, achieved_far and
\* achieved_lot_coverage of a Building and the three limits.  Two parcels: one
\* whose height limit is 1000, so that heights inside the tolerance 1.001 exist,
\* and one of area 1000, so that FARs and coverages inside the tolerance exist.
EvaluateMassing(h, f, c) ==
    [shape_name |-> <<1, 1>>, custom_footprint |-> c,
     floors |-> <<NewFloor(0, 0, h, c, FALSE, 0, 0, 0)>>,
     total_built_area_m2 |-> f, total_height_m |-> h, achieved_far |-> f,
     achieved_lot_coverage |-> c, num_floors |-> 1]

EvaluateParams(mh, ld, mf, mc) ==
    [max_height |-> mh, max_far |-> mf, max_lot_coverage |-> mc,
     gf_floor_height |-> 5000, uf_floor_height |-> 5000, min_floor_area |-> 1,
     min_front_setback |-> 0, min_back_setback |-> 0, min_side_setback |-> 0,
     back_setback_percent |-> 0, min_setback_start_floor |-> 3, has_faces |-> TRUE,
     lot_depth |-> ld, lot_width |-> 1,
     optimization_objective |-> "maximize_far_within_height", area_unit |-> 1]

EvaluateCases ==
    {<<EvaluateParams(1000, 2, mf, mc), EvaluateMassing(h, f, c)>> :
        mf \in MaxFars, mc \in MaxLotCoverages,
        h \in {1000, 1001, 1002}, f \in {1, 2, 3}, c \in {1, 2}}
    \cup
    {<<EvaluateParams(10, 1000, mf, mc), EvaluateMassing(h, f, c)>> :
        mf \in MaxFars, mc \in MaxLotCoverages,
        h \in {10, 11}, f \in {500, 501, 1001, 1002}, c \in {500, 501, 1002}}

InitEvaluate ==
    /\ \E case \in EvaluateCases : params = case[1] /\ current_building = case[2]
    /\ footprint_polygon = base_footprint_area(params)
    /\ shapes = [g \in GeneratorIds |-> <<>>]
    /\ pc = "evaluate_building"
    /\ gen_idx = 0
    /\ cand_idx = 0
    /\ best_building_solution = None
    /\ best_score = NegInf
    /\ all_evaluated_solutions = <<>>
    /\ current_height_m = 0
    /\ current_built_area_m2 = 0
    /\ floor_num = 0
    /\ stop_reason = "none"
    /\ compliance = None
    /\ evaluation = None
    /\ runs = 0
    /\ returned = <<>>
    /\ summaries = <<>>
    /\ previous_floors = <<>>
    /\ base_footprint = {}
    /\ shape_ratio_steps = <<>>
    /\ grid_generator = None
    /\ generated = <<>>
    /\ CheckpointIdle
    /\ AppParamsIdle
    /\ PipelineIdle

\* a call of BuildingEvaluator.evaluate_building
CallEvaluateBuilding ==
    /\ pc = "evaluate_building"
    /\ evaluation' = evaluate_building(params, current_building)
    /\ pc' = "evaluated"
    /\ UNCHANGED <<extVars, genVars, params, footprint_polygon, shapes, gen_idx, cand_idx, optVars, current_building, loopVars,
                   stop_reason, compliance, runVars>>

NextEvaluate == CallEvaluateBuilding

SpecEvaluate == InitEvaluate /\ [][NextEvaluate]_vars

\* the massing an evaluation was made of, read from the metrics it returned
Evaluated == evaluation # None /\ "evaluation_score" \in DOMAIN evaluation[2]
EvaluatedWithin ==
    /\ HeightWithin(params, evaluation[2])
    /\ FarWithin(params, evaluation[2])
    /\ CoverageWithin(params, evaluation[2])

\* C11: a compliant massing with at least one floor scores achieved_far * 100
\* plus (total_height / max_height) * 10, the second term only when
\* total_height <= max_height (both sides times lot_area_m2 * max_height).
C11_CompliantScore ==
    (Evaluated /\ EvaluatedWithin /\ evaluation[2].num_floors >= 1 /\ params.max_height > 0)
    => LET m == evaluation[2]
       IN  /\ m.is_compliant
           /\ evaluation[1].inf = FALSE
           /\ evaluation[1].val =
                 100 * m.achieved_far * params.max_height
                 + (IF m.total_height_m <= params.max_height
                    THEN 10 * m.total_height_m * lot_area_m2(params) ELSE 0)

\* a compliant massing higher than max_height, inside the tolerance
C11_Witness ==
    /\ pc = "evaluated"
    /\ Evaluated /\ EvaluatedWithin
    /\ evaluation[2].total_height_m = 1001
    /\ params.max_height = 1000
    /\ evaluation[1].val = 100 * evaluation[2].achieved_far * 1000

\* C12: a non-compliant massing scores -1000 per violated dimension, minus 5
\* times (total_height - max_height) when that is positive, minus 50 times
\* (achieved_far - max_far) when that is positive (all times
\* lot_area_m2 * max_height; max_far is in halves).
C12_NonCompliantScore ==
    (Evaluated /\ ~EvaluatedWithin /\ params.max_height > 0)
    => LET m == evaluation[2]
           S == lot_area_m2(params) * params.max_height
           height_excess == m.total_height_m - params.max_height
           \* (achieved_far - max_far) * 2 * S
           far_excess_2S == 2 * m.achieved_far * params.max_height - params.max_far * S
       IN  /\ ~m.is_compliant
           /\ Len(m.violations) = Breaches(params, m)
           /\ evaluation[1].inf = FALSE
           /\ evaluation[1].val =
                 0 - 1000 * Breaches(params, m) * S
                   - (IF height_excess > 0 THEN 5 * height_excess * S ELSE 0)
                   - (IF far_excess_2S > 0 THEN 25 * far_excess_2S ELSE 0)

\* a massing in breach of the three limits
C12_Witness ==
    /\ pc = "evaluated"
    /\ Evaluated
    /\ Len(evaluation[2].violations) = 3
    /\ evaluation[2].total_height_m > params.max_height
    /\ 2 * evaluation[2].achieved_far > params.max_far * lot_area_m2(params)

\* ------------------------- the base envelope and the baseline of a parcel
\* Building._initialize_base_footprint step by step, then the pipeline's test of
\* the base footprint and the orthogonal baseline stacked on it.
Setbacks == {0, 1, 2}
EnvelopeLotDepths == {0, 2, 3, 4}
EnvelopeLotWidths == {2, 3, 4}

EnvelopeParamsSet ==
    {[max_height |-> 10000, max_far |-> mf, max_lot_coverage |-> 2,
      gf_floor_height |-> 5000, uf_floor_height |-> 5000, min_floor_area |-> ma,
      min_front_setback |-> fs, min_back_setback |-> bs, min_side_setback |-> ss,
      back_setback_percent |-> r[1], min_setback_start_floor |-> r[2], has_faces |-> r[3],
      lot_depth |-> ld, lot_width |-> lw,
      optimization_objective |-> "maximize_far_within_height", area_unit |-> 1] :
        mf \in MaxFars, ma \in MinFloorAreas, fs \in Setbacks, bs \in Setbacks,
        ss \in Setbacks, r \in VerticalSetbackRegimes,
        ld \in EnvelopeLotDepths, lw \in EnvelopeLotWidths}

\* lines 134-137: some classified face of a recognised type was given
has_valid_identified_faces(p) == p.has_faces

\* line 156
min_overall_setback(p) == Min3(p.min_front_setback, p.min_back_setback, p.min_side_setback)

\* line 158: area of lot_polygon_original.buffer(-m) with mitred joins, 0 when empty
uniform_buffer_area(p, m) ==
    IF p.lot_depth - 2 * m > 0 /\ p.lot_width - 2 * m > 0
    THEN (p.lot_depth - 2 * m) * (p.lot_width - 2 * m)
    ELSE 0

\* the largest of the three setbacks in place of the smallest
fallback_footprint_area_max(p) ==
    LET m == 0 - Min3(0 - p.min_front_setback, 0 - p.min_back_setback,
                      0 - p.min_side_setback)
    IN  IF m > 0 THEN uniform_buffer_area(p, m) ELSE lot_area_m2(p)

\* lines 154-160: the uniform buffer, or the parcel itself when the minimum is 0
fallback_footprint_area(p) ==
    IF min_overall_setback(p) > 0
    THEN uniform_buffer_area(p, min_overall_setback(p))
    ELSE lot_area_m2(p)

InitEnvelope ==
    /\ params \in EnvelopeParamsSet
    /\ footprint_polygon = 0
    /\ shapes = [g \in GeneratorIds |-> <<>>]
    /\ pc = "init_footprint"
    /\ gen_idx = 0
    /\ cand_idx = 0
    /\ best_building_solution = None
    /\ best_score = NegInf
    /\ all_evaluated_solutions = <<>>
    /\ current_building = None
    /\ current_height_m = 0
    /\ current_built_area_m2 = 0
    /\ floor_num = 0
    /\ stop_reason = "none"
    /\ compliance = None
    /\ evaluation = None
    /\ runs = 0
    /\ returned = <<>>
    /\ summaries = <<>>
    /\ previous_floors = <<>>
    /\ base_footprint = {}
    /\ shape_ratio_steps = <<>>
    /\ grid_generator = None
    /\ generated = <<>>
    /\ CheckpointIdle
    /\ AppParamsIdle
    /\ PipelineIdle

envelopeFrame == <<extVars, genVars, params, shapes, gen_idx, cand_idx, optVars, compliance, evaluation, runVars>>

\* lines 130-132: an empty parcel
EmptyLot ==
    /\ pc = "init_footprint"
    /\ lot_area_m2(params) = 0
    /\ footprint_polygon' = 0
    /\ pc' = "footprint_ready"
    /\ stop_reason' = "empty_lot"
    /\ UNCHANGED <<envelopeFrame, current_building, loopVars>>

\* lines 141-149: the face-aware derivation
ApplyIdentifiedFaces ==
    /\ pc = "init_footprint"
    /\ lot_area_m2(params) > 0
    /\ has_valid_identified_faces(params)
    /\ footprint_polygon' = apply_setbacks_area(params, params.min_front_setback,
                                                params.min_back_setback,
                                                params.min_side_setback)
    /\ pc' = "faces_applied"
    /\ stop_reason' = "faces"
    /\ UNCHANGED <<envelopeFrame, current_building, loopVars>>

\* lines 150-152 not taken: the face-aware envelope is kept
KeepFaceEnvelope ==
    /\ pc = "faces_applied"
    /\ footprint_polygon > 0
    /\ pc' = "footprint_derived"
    /\ UNCHANGED <<envelopeFrame, footprint_polygon, current_building, loopVars, stop_reason>>

\* lines 154-161: no usable face (pc = "init_footprint"), or the face-aware
\* derivation returned None or an empty polygon (lines 150-152)
UniformBufferFallback ==
    /\ \/ pc = "init_footprint" /\ lot_area_m2(params) > 0
                                /\ ~has_valid_identified_faces(params)
       \/ pc = "faces_applied" /\ footprint_polygon = 0
    /\ footprint_polygon' = fallback_footprint_area(params)
    /\ pc' = "footprint_derived"
    /\ stop_reason' = "fallback"
    /\ UNCHANGED <<envelopeFrame, current_building, loopVars>>

\* lines 163-170: an empty footprint is replaced by the original parcel
CheckBaseFootprint ==
    /\ pc = "footprint_derived"
    /\ footprint_polygon' = IF footprint_polygon = 0 THEN lot_area_m2(params)
                            ELSE footprint_polygon
    /\ stop_reason' = IF footprint_polygon = 0 THEN "original_lot" ELSE stop_reason
    /\ pc' = "footprint_ready"
    /\ UNCHANGED <<envelopeFrame, current_building, loopVars>>

\* modeling_pipeline lines 99-102: the parcel is skipped, status "Footprint base
\* invalido"
SkipLot ==
    /\ pc = "footprint_ready"
    /\ footprint_polygon = 0
    /\ pc' = "skipped"
    /\ UNCHANGED <<envelopeFrame, footprint_polygon, current_building, loopVars, stop_reason>>

\* modeling_pipeline lines 109-116: the orthogonal baseline, the bounding box of the
\* base footprint, and the start of generate_floors on it
GenerateBaselineBuilding ==
    /\ pc = "footprint_ready"
    /\ footprint_polygon > 0
    /\ current_building' = NewBuilding(params, <<0, 1>>, footprint_polygon)
    /\ pc' = "stack"
    /\ stop_reason' = "none"
    /\ current_height_m' = 0
    /\ current_built_area_m2' = 0
    /\ floor_num' = 0
    /\ previous_floors' = <<>>
    /\ UNCHANGED <<envelopeFrame, footprint_polygon>>

NextEnvelope ==
    \/ EmptyLot
    \/ ApplyIdentifiedFaces
    \/ KeepFaceEnvelope
    \/ UniformBufferFallback
    \/ CheckBaseFootprint
    \/ SkipLot
    \/ GenerateBaselineBuilding
    \/ BreakHeight
    \/ BreakVerticalSetback
    \/ BreakFAR
    \/ BreakMinArea
    \/ CommitFloor

SpecEnvelope == InitEnvelope /\ [][NextEnvelope]_vars

\* the smallest of the three setbacks
SmallestSetback ==
    CHOOSE m \in {params.min_front_setback, params.min_back_setback, params.min_side_setback} :
        /\ m <= params.min_front_setback
        /\ m <= params.min_back_setback
        /\ m <= params.min_side_setback

\* the parcel shrunk by m on its four sides, 0 when nothing is left
ShrunkParcel(m) ==
    IF params.lot_depth > 2 * m /\ params.lot_width > 2 * m
    THEN (params.lot_depth - 2 * m) * (params.lot_width - 2 * m)
    ELSE 0

\* the face-aware derivation gave no polygon (or was not attempted)
NoFaceEnvelope ==
    \/ ~params.has_faces
    \/ apply_setbacks_area(params, params.min_front_setback, params.min_back_setback,
                           params.min_side_setback) = 0

EnvelopeEmpty ==
    \/ lot_area_m2(params) = 0
    \/ NoFaceEnvelope /\ SmallestSetback > 0 /\ ShrunkParcel(SmallestSetback) = 0

\* C14: when the envelope derivation produces no buildable polygon, fallback
\* included, the massing of the parcel has no floor: no floor is stacked for it.
C14_EnvelopeEmptyZeroFloors ==
    (EnvelopeEmpty /\ current_building # None) => current_building.floors = <<>>

\* C15: with the three setbacks 0 and the faces of the parcel classified,
\* apply_setbacks_to_polygon_with_identified_faces returns a polygon of the
\* area of the parcel.
C15_ZeroSetbackIdentity ==
    (/\ pc = "faces_applied"
     /\ params.min_front_setback = 0
     /\ params.min_back_setback = 0
     /\ params.min_side_setback = 0)
    => footprint_polygon = params.lot_depth * params.lot_width

\* the face-aware derivation applied with the three setbacks 0
C15_Witness ==
    /\ pc = "faces_applied"
    /\ params.min_front_setback = 0
    /\ params.min_back_setback = 0
    /\ params.min_side_setback = 0
    /\ footprint_polygon = 12

\* ------------------------------------------------ the log of a run
\* the candidates of a run, in generator order then candidate order
RECURSIVE CandidateNames(_)
CandidateNames(g) ==
    IF g \notin GeneratorIds THEN <<>>
    ELSE [i \in 1..Len(shapes[g]) |-> <<g, i>>] \o CandidateNames(g + 1)

\* how many candidates the run has dealt with: those before the current one,
\* and the current one once it is logged
Processed ==
    LET before(g) == Len(CandidateNames(1)) - Len(CandidateNames(g))
    IN  CASE pc = "idle" -> 0
          [] pc = "done" -> Len(CandidateNames(1))
          [] pc = "generator" -> before(gen_idx)
          [] OTHER -> before(gen_idx) + cand_idx - 1

IsFailureEntry(e) == "error" \in DOMAIN e /\ e.error = "Falha na geracao"
IsScoredEntry(e) == "evaluation_score" \in DOMAIN e /\ e.num_floors >= 1

\* C19: the log holds exactly one entry per candidate dealt with by the current
\* run, in generator order then candidate order (so none of a previous run); an
\* entry is a failure entry when the candidate's massing has no floors and a
\* scored entry otherwise.
C19_LogOneEntryPerCandidate ==
    pc # "idle" =>
        /\ Len(all_evaluated_solutions) = Processed
        /\ \A k \in 1..Len(all_evaluated_solutions) :
              /\ all_evaluated_solutions[k].shape_name = CandidateNames(1)[k]
              /\ IsFailureEntry(all_evaluated_solutions[k])
                    # IsScoredEntry(all_evaluated_solutions[k])
        /\ (/\ pc \in {"candidate", "generator", "done"}
            /\ current_building # None
            /\ all_evaluated_solutions # <<>>)
           => LET last == all_evaluated_solutions[Len(all_evaluated_solutions)]
              IN  /\ last.shape_name = current_building.shape_name
                  /\ IsFailureEntry(last) <=> current_building.floors = <<>>
        /\ pc = "done" => summaries[Len(summaries)][2] = all_evaluated_solutions

\* a second run finished, with failed and scored candidates of two generators
C19_Witness ==
    /\ pc = "done"
    /\ runs = 2
    /\ Len(all_evaluated_solutions) = 4
    /\ \E i, j \in 1..4 : /\ IsFailureEntry(all_evaluated_solutions[i])
                          /\ IsScoredEntry(all_evaluated_solutions[j])

\* ------------------------------------------ generate_floors called again
\* floors not emptied: line 175 left out
RegenerateFloors_append ==
    /\ pc = "built"
    /\ previous_floors = <<>>
    /\ previous_floors' = <<current_building.floors>>
    /\ IF base_geometry_area(params, current_building) = 0
       THEN /\ current_building' = calculate_final_metrics(params, current_building)
            /\ pc' = "built"
            /\ stop_reason' = "empty_base"
       ELSE /\ current_building' = current_building
            /\ pc' = "stack"
            /\ stop_reason' = "none"
    /\ current_height_m' = 0
    /\ current_built_area_m2' = 0
    /\ floor_num' = 0
    /\ UNCHANGED <<extVars, genVars, params, footprint_polygon, shapes, gen_idx, cand_idx, optVars, compliance,
                   evaluation, runVars>>

\* generate_floors lines 175-186 on a Building that was stacked already, with the
\* same custom footprint
RegenerateFloors ==
    /\ pc = "built"
    /\ previous_floors = <<>>
    /\ previous_floors' = <<current_building.floors>>
    /\ IF base_geometry_area(params, current_building) = 0
       THEN /\ current_building' =
                    calculate_final_metrics(params, [current_building EXCEPT !.floors = <<>>])
            /\ pc' = "built"
            /\ stop_reason' = "empty_base"
       ELSE /\ current_building' = [current_building EXCEPT !.floors = <<>>]
            /\ pc' = "stack"
            /\ stop_reason' = "none"
    /\ current_height_m' = 0
    /\ current_built_area_m2' = 0
    /\ floor_num' = 0
    /\ UNCHANGED <<extVars, genVars, params, footprint_polygon, shapes, gen_idx, cand_idx, optVars, compliance,
                   evaluation, runVars>>

NextRestart == Next \/ RegenerateFloors

SpecRestart == Init /\ [][NextRestart]_vars

\* C20: every run of run_optimization on the same optimizer ends with the same
\* best score, the same best massing and the same log, and generate_floors
\* called again on a Building leaves it with a floor list equal to the one it
\* had.
C20_Idempotent ==
    /\ \A i, j \in 1..Len(summaries) : summaries[i] = summaries[j]
    /\ \A i, j \in 1..Len(returned) : returned[i] = returned[j]
    /\ pc = "done" => /\ summaries[Len(summaries)] = <<best_score, all_evaluated_solutions>>
                      /\ returned[Len(returned)] = best_building_solution
    /\ (pc = "built" /\ previous_floors # <<>>) => current_building.floors = previous_floors[1]

\* two runs finished with a retained massing, the last candidate stacked twice
C20_Witness ==
    /\ pc = "done"
    /\ runs = 2
    /\ best_building_solution # None
    /\ Len(all_evaluated_solutions) >= 2
    /\ previous_floors # <<>>
    /\ Len(previous_floors[1]) = 2

\* ------------------------------------------------- the shape generators
\* Polygons with axis-parallel edges on integer coordinates, kept as the set of
\* unit cells they cover; cell <<x, y>> is the square [x, x+1] x [y, y+1].  A set
\* of cells that is not connected edge to edge is a MultiPolygon, the empty set
\* an empty geometry.
MaxGeneratorCalls == 2

Coordinates == 0..7
Cells == Coordinates \X Coordinates

\* shapely.geometry.box(minx, miny, maxx, maxy), clipped to the coordinates
box(minx, miny, maxx, maxy) ==
    {c \in Cells : minx <= c[1] /\ c[1] < maxx /\ miny <= c[2] /\ c[2] < maxy}

\* base footprints: unions of the four 4 x 4 quadrants that are connected, and the
\* empty footprint
Quadrants == {0, 1} \X {0, 1}
QuadrantCells(q) == box(4 * q[1], 4 * q[2], 4 * q[1] + 4, 4 * q[2] + 4)
BaseFootprints ==
    {UNION {QuadrantCells(q) : q \in Q} :
        Q \in (SUBSET Quadrants) \ {{<<0, 0>>, <<1, 1>>}, {<<0, 1>>, <<1, 0>>}}}

\* shape_ratio_steps in quarters: 0, 0.25, 0.5, 0.75, 1.0
RatioStepLists == {<<>>, <<2>>, <<1, 3>>, <<0, 2, 4>>}

\* polygon.bounds: <<minx, miny, maxx, maxy>>
bounds(P) ==
    <<CHOOSE x \in {c[1] : c \in P} : \A c \in P : x <= c[1],
      CHOOSE y \in {c[2] : c \in P} : \A c \in P : y <= c[2],
      1 + CHOOSE x \in {c[1] : c \in P} : \A c \in P : x >= c[1],
      1 + CHOOSE y \in {c[2] : c \in P} : \A c \in P : y >= c[2]>>

\* the cells of P that can be reached from R across cell edges
RECURSIVE Connected(_, _)
Connected(P, R) ==
    LET more == R \cup {c \in P : \E d \in R :
                            \/ c[1] = d[1] /\ (c[2] = d[2] + 1 \/ d[2] = c[2] + 1)
                            \/ c[2] = d[2] /\ (c[1] = d[1] + 1 \/ d[1] = c[1] + 1)}
    IN  IF more = R THEN R ELSE Connected(P, more)

\* isinstance(g, Polygon) and not g.is_empty
is_polygon(P) == P # {} /\ Connected(P, {CHOOSE c \in P : TRUE}) = P

\* get_oriented_bounding_box: minimum_rotated_rectangle, which for these
\* footprints is the axis-parallel bounding box
get_oriented_bounding_box(P) ==
    IF P = {} THEN {} ELSE box(bounds(P)[1], bounds(P)[2], bounds(P)[3], bounds(P)[4])

\* OrthogonalGenerator.generate_shapes
orthogonal_generate_shapes(base) ==
    IF base = {} THEN <<>>
    ELSE LET obb == get_oriented_bounding_box(base)
         IN  IF is_polygon(obb)
             THEN <<[shape_name |-> <<"Ortogonal", 0>>, footprint |-> obb]>>
             ELSE <<[shape_name |-> <<"Ortogonal", 0>>, footprint |-> base]>>

\* composition_generator lines 46-51: L-Shape V1 for ratio r / 4
l_shape_v1(base, r) ==
    LET b == bounds(get_oriented_bounding_box(base))
        width == b[3] - b[1]
        height == b[4] - b[2]
        leg1_v == box(b[1], b[2], b[1] + (width * r) \div 4, b[4])
        leg2_v == box(b[1], b[2], b[3], b[2] + (height * r) \div 4)
    IN  (leg1_v \cup leg2_v) \cap base

\* composition_generator lines 56-61: L-Shape H1 for ratio r / 4
l_shape_h1(base, r) ==
    LET b == bounds(get_oriented_bounding_box(base))
        width == b[3] - b[1]
        height == b[4] - b[2]
        leg1_h == box(b[1], b[2], b[3], b[2] + (height * r) \div 4)
        leg2_h == box(b[1], b[2], b[1] + (width * r) \div 4, b[4])
    IN  (leg1_h \cup leg2_h) \cap base

\* CompositeGenerator.generate_shapes, lines 42-63: the loop over the ratios
RECURSIVE composite_shapes_for(_, _)
composite_shapes_for(base, ratios) ==
    IF ratios = <<>> THEN <<>>
    ELSE LET r == Head(ratios)
             v1 == l_shape_v1(base, r)
             h1 == l_shape_h1(base, r)
         IN  IF r <= 0 \/ r >= 4
             THEN composite_shapes_for(base, Tail(ratios))
             ELSE (IF is_polygon(v1)
                   THEN <<[shape_name |-> <<"L-V1", r>>, footprint |-> v1]>> ELSE <<>>)
                  \o (IF is_polygon(h1)
                      THEN <<[shape_name |-> <<"L-H1", r>>, footprint |-> h1]>> ELSE <<>>)
                  \o composite_shapes_for(base, Tail(ratios))

\* CompositeGenerator.generate_shapes
composite_generate_shapes(base, ratios) ==
    IF base = {} THEN <<>> ELSE composite_shapes_for(base, ratios)

\* SpatialGridAllocator.generate_grid_centroids: the sample points within the
\* polygon, here the centres of its 2 x 2 blocks, in a fixed order
RECURSIVE ordered_points(_)
ordered_points(S) ==
    IF S = {} THEN <<>>
    ELSE LET first == CHOOSE pt \in S : \A q \in S : pt[2] * 8 + pt[1] <= q[2] * 8 + q[1]
         IN  <<first>> \o ordered_points(S \ {first})

generate_grid_centroids(lot) ==
    ordered_points({pt \in {1, 3, 5, 7} \X {1, 3, 5, 7} : <<pt[1], pt[2]>> \in lot})

\* grid_composition_generator lines 22-29: the primitive placed at the i-th point
\* (i from 0): a corner, box(0, 0, 8, 8), every fifth point, a slab,
\* box(-4, -12, 4, 12), otherwise; lengths divided by 4
atomic_shape(i, pt) ==
    IF i % 5 = 0 THEN box(pt[1], pt[2], pt[1] + 2, pt[2] + 2)
    ELSE box(pt[1] - 1, pt[2] - 3, pt[1] + 1, pt[2] + 3)

\* lines 20-38: the union of the primitives clipped to the lot
grid_base(lot) ==
    LET centroids == generate_grid_centroids(lot)
    IN  UNION {atomic_shape(i - 1, centroids[i]) \cap lot : i \in 1..Len(centroids)}

\* lines 50-76, without vertical setback (back_setback_percent = 0, scale factor
\* 1): <<total_built_area, total_floors>> after the floors from floor on
RECURSIVE grid_floors(_, _, _, _, _)
grid_floors(g, lot, floor, total, nfloors) ==
    IF floor > g.max_floors THEN <<total, nfloors>>
    ELSE IF 2 * total >= g.max_far * Cardinality(lot) THEN <<total, nfloors>>
    ELSE IF Cardinality(grid_base(lot)) < g.min_floor_area THEN <<total, nfloors>>
    ELSE grid_floors(g, lot, floor + 1, total + Cardinality(grid_base(lot)), nfloors + 1)

\* GridCompositionGenerator.generate: <<the generator after the call, what the call
\* returned>>; <<>> for None, <<footprint>> otherwise
grid_generate(g, lot) ==
    LET centroids == generate_grid_centroids(lot)
        corners == Cardinality({i \in 1..Len(centroids) : (i - 1) % 5 = 0})
        counted == [g EXCEPT !.used_corners = @ + corners,
                             !.used_slabs = @ + Len(centroids) - corners]
        after == grid_floors(counted, lot, 1, g.total_built_area, 0)
    IN  IF centroids = <<>>
        THEN <<counted, <<>>>>
        ELSE <<[counted EXCEPT !.total_built_area = after[1],
                               !.total_floors = g.total_floors + after[2]],
               <<IF after[2] > 0 THEN grid_base(lot) \cap lot ELSE {}>>>>

\* GridCompositionGenerator.__init__, with max_floors = max_height // floor_height
GridGenerators ==
    {[max_floors |-> mfl, max_far |-> mf, min_floor_area |-> 1,
      used_slabs |-> 0, used_corners |-> 0, total_built_area |-> 0, total_floors |-> 0] :
        mfl \in {0, 2}, mf \in MaxFars}

InitGenerators ==
    /\ base_footprint \in BaseFootprints
    /\ shape_ratio_steps \in RatioStepLists
    /\ grid_generator \in GridGenerators
    /\ generated = <<>>
    /\ CheckpointIdle
    /\ AppParamsIdle
    /\ PipelineIdle
    /\ params \in {EvaluateParams(10, 8, 2, 2)}
    /\ footprint_polygon = Cardinality(base_footprint)
    /\ shapes = [g \in GeneratorIds |-> <<>>]
    /\ pc = "generators"
    /\ gen_idx = 0
    /\ cand_idx = 0
    /\ best_building_solution = None
    /\ best_score = NegInf
    /\ all_evaluated_solutions = <<>>
    /\ current_building = None
    /\ current_height_m = 0
    /\ current_built_area_m2 = 0
    /\ floor_num = 0
    /\ stop_reason = "none"
    /\ compliance = None
    /\ evaluation = None
    /\ runs = 0
    /\ returned = <<>>
    /\ summaries = <<>>
    /\ previous_floors = <<>>

generatorsFrame ==
    <<params, footprint_polygon, shapes, pc, gen_idx, cand_idx, optVars, current_building,
      loopVars, stop_reason, compliance, evaluation, runVars, base_footprint,
      shape_ratio_steps, extVars>>

\* a call of OrthogonalGenerator.generate_shapes
CallOrthogonalGenerator ==
    /\ pc = "generators"
    /\ Len(generated) < MaxGeneratorCalls
    /\ generated' = Append(generated,
            [generator |-> "orthogonal",
             footprints |-> [i \in 1..Len(orthogonal_generate_shapes(base_footprint)) |->
                                orthogonal_generate_shapes(base_footprint)[i].footprint],
             shape_names |-> [i \in 1..Len(orthogonal_generate_shapes(base_footprint)) |->
                                orthogonal_generate_shapes(base_footprint)[i].shape_name],
             used_slabs |-> 0, used_corners |-> 0])
    /\ UNCHANGED <<generatorsFrame, grid_generator>>

\* a call of CompositeGenerator.generate_shapes
CallCompositeGenerator ==
    /\ pc = "generators"
    /\ Len(generated) < MaxGeneratorCalls
    /\ LET out == composite_generate_shapes(base_footprint, shape_ratio_steps)
       IN  generated' = Append(generated,
                [generator |-> "composite",
                 footprints |-> [i \in 1..Len(out) |-> out[i].footprint],
                 shape_names |-> [i \in 1..Len(out) |-> out[i].shape_name],
                 used_slabs |-> 0, used_corners |-> 0])
    /\ UNCHANGED <<generatorsFrame, grid_generator>>

\* a call of GridCompositionGenerator.generate, with the primitive counts read
\* from the generator after the call
CallGridGenerator ==
    /\ pc = "generators"
    /\ Len(generated) < MaxGeneratorCalls
    /\ LET out == grid_generate(grid_generator, base_footprint)
       IN  /\ grid_generator' = out[1]
           /\ generated' = Append(generated,
                [generator |-> "grid",
                 footprints |-> out[2],
                 shape_names |-> [i \in 1..Len(out[2]) |-> <<"Grid", 0>>],
                 used_slabs |-> out[1].used_slabs, used_corners |-> out[1].used_corners])
    /\ UNCHANGED generatorsFrame

NextGenerators ==
    \/ CallOrthogonalGenerator
    \/ CallCompositeGenerator
    \/ CallGridGenerator

SpecGenerators == InitGenerators /\ [][NextGenerators]_vars

\* C16: every footprint a generator returns is a non-empty polygon contained in
\* the base footprint it was generated from.
C16_FootprintsWithinEnvelope ==
    \A k \in 1..Len(generated) :
        \A i \in 1..Len(generated[k].footprints) :
            /\ generated[k].footprints[i] # {}
            /\ is_polygon(generated[k].footprints[i])
            /\ generated[k].footprints[i] \subseteq base_footprint

\* the two legs of ratio r / 4 on the bounding box of the base footprint
Leg(vertical, r) ==
    LET b == bounds(base_footprint)
    IN  IF vertical THEN box(b[1], b[2], b[1] + ((b[3] - b[1]) * r) \div 4, b[4])
        ELSE box(b[1], b[2], b[3], b[2] + ((b[4] - b[2]) * r) \div 4)

\* C17: the Composite generator returns at most two candidates per configured
\* ratio and none for a ratio outside (0, 1), and the V1 and the H1 candidate of
\* one ratio are different polygons whenever the two legs differ.
C17_TwoOrientations ==
    \A k \in 1..Len(generated) :
        generated[k].generator = "composite" =>
            LET names == generated[k].shape_names
                fps == generated[k].footprints
            IN  /\ Len(fps) <= 2 * Len(shape_ratio_steps)
                /\ \A i \in 1..Len(names) : names[i][2] \in 1..3
                /\ \A i, j \in 1..Len(names) :
                      (/\ names[i][1] = "L-V1"
                       /\ names[j][1] = "L-H1"
                       /\ names[i][2] = names[j][2]
                       /\ Leg(TRUE, names[i][2]) # Leg(FALSE, names[i][2]))
                      => fps[i] # fps[j]

\* C18: two calls of the same generator with unchanged inputs return the same
\* footprints and the same primitive counts.
C18_GenerateIsPure ==
    \A j, k \in 1..Len(generated) :
        generated[j].generator = generated[k].generator => generated[j] = generated[k]

\* ------------------------------------------- the progressive back setback
RECURSIVE SumHeights(_)
SumHeights(fs) == IF fs = <<>> THEN 0 ELSE fs[1].floor_height_m + SumHeights(Tail(fs))

\* floor number n is at or above min_setback_start_floor and the growth rate is positive
ProgressiveFloor(n) ==
    n >= params.min_setback_start_floor /\ params.back_setback_percent > 0

\* C23: floor i of a massing carries the vertical-setback flag exactly when
\* i >= min_setback_start_floor and back_setback_percent > 0; its back setback is
\* then min_back_setback + (height of the floors below) * back_setback_percent and
\* its footprint the non-empty envelope re-derived with that back setback and the
\* minimum front and side setbacks; any other floor has the flag off, the minimum
\* back setback and the base footprint of the candidate.  Front and side setbacks
\* are the minimum values on every floor.  A stop on the re-derivation keeps the
\* floors below and happens only on an empty re-derived envelope.
C23_ProgressiveBackSetback ==
    current_building # None =>
        LET fs == current_building.floors
        IN  /\ \A i \in 1..Len(fs) :
                  LET below == SumHeights(SubSeq(fs, 1, i - 1))
                  IN  /\ fs[i].has_vertical_setback = ProgressiveFloor(i - 1)
                      /\ fs[i].applied_front_setback_amount = params.min_front_setback
                      /\ fs[i].applied_side_setback_amount = params.min_side_setback
                      /\ IF ProgressiveFloor(i - 1)
                         THEN /\ (fs[i].applied_back_setback_amount - params.min_back_setback)
                                      * 5000 = below * params.back_setback_percent
                              /\ fs[i].floor_area_m2 > 0
                              /\ fs[i].floor_area_m2 =
                                    apply_setbacks_area(params, params.min_front_setback,
                                                        fs[i].applied_back_setback_amount,
                                                        params.min_side_setback)
                         ELSE /\ fs[i].applied_back_setback_amount = params.min_back_setback
                              /\ fs[i].floor_area_m2 =
                                    base_geometry_area(params, current_building)
            /\ (pc = "built" /\ stop_reason = "vertical_setback") =>
                  /\ ProgressiveFloor(Len(fs))
                  /\ Len(fs) = floor_num
                  /\ apply_setbacks_area(params, params.min_front_setback,
                        params.min_back_setback
                            + (SumHeights(fs) * params.back_setback_percent) \div 5000,
                        params.min_side_setback) = 0

\* a ground floor on the base footprint below a floor with a progressive back
\* setback larger than the minimum one, on a parcel with three positive setbacks
C23_Witness ==
    /\ pc = "built"
    /\ Len(current_building.floors) = 2
    /\ ~current_building.floors[1].has_vertical_setback
    /\ current_building.floors[2].has_vertical_setback
    /\ params.min_back_setback > 0
    /\ current_building.floors[2].applied_back_setback_amount > params.min_back_setback
    /\ current_building.floors[2].floor_area_m2 < current_building.floors[1].floor_area_m2

\* the stacking stopped on an empty re-derived envelope above a committed floor
C23_StopWitness ==
    /\ pc = "built"
    /\ stop_reason = "vertical_setback"
    /\ Len(current_building.floors) = 1

\* ------------------------------- generate_floors on one candidate footprint
StackMinFloorAreas == {1, 3, 100}
StackLotDepths == {0, 4}
StackCandidateAreas == {0, 1, 2, 4, 16}

\* parcels of 4 x 4 area units of 0.01 square metre, and empty parcels
StackParamsSet ==
    {[max_height |-> mh, max_far |-> mf, max_lot_coverage |-> 2,
      gf_floor_height |-> gf, uf_floor_height |-> uf, min_floor_area |-> ma,
      min_front_setback |-> 0, min_back_setback |-> 0, min_side_setback |-> 0,
      back_setback_percent |-> r[1], min_setback_start_floor |-> r[2], has_faces |-> r[3],
      lot_depth |-> ld, lot_width |-> 4,
      optimization_objective |-> "maximize_far_within_height", area_unit |-> 100] :
        mh \in MaxHeights, mf \in MaxFars, gf \in GfFloorHeights, uf \in UfFloorHeights,
        ma \in StackMinFloorAreas, r \in VerticalSetbackRegimes, ld \in StackLotDepths}

\* generate_building_from_shape about to be called on the one candidate of
\* generator 1
InitStack ==
    /\ params \in StackParamsSet
    /\ footprint_polygon = base_footprint_area(params)
    /\ \E a \in StackCandidateAreas :
          /\ a <= base_footprint_area(params)
          /\ shapes = [g \in GeneratorIds |-> IF g = 1 THEN <<a>> ELSE <<>>]
    /\ pc = "candidate"
    /\ gen_idx = 1
    /\ cand_idx = 1
    /\ best_building_solution = None
    /\ best_score = NegInf
    /\ all_evaluated_solutions = <<>>
    /\ current_building = None
    /\ current_height_m = 0
    /\ current_built_area_m2 = 0
    /\ floor_num = 0
    /\ stop_reason = "none"
    /\ compliance = None
    /\ evaluation = None
    /\ runs = 0
    /\ returned = <<>>
    /\ summaries = <<>>
    /\ previous_floors = <<>>
    /\ base_footprint = {}
    /\ shape_ratio_steps = <<>>
    /\ grid_generator = None
    /\ generated = <<>>
    /\ CheckpointIdle
    /\ AppParamsIdle
    /\ PipelineIdle

NextStack ==
    \/ GenerateBuildingFromShape
    \/ BreakHeight
    \/ BreakVerticalSetback
    \/ BreakFAR
    \/ BreakMinArea
    \/ CommitFloor

SpecStack == InitStack /\ [][NextStack]_vars

\* C24: every committed floor above the ground floor has an area of at least
\* min_floor_area; the ground floor is never committed with a negligible area
\* (<= 0.01) below min_floor_area, and a ground floor whose area is below
\* min_floor_area but above 0.01 is committed whenever the height and the FAR
\* tests let it pass; a stop on the minimum area is a floor below min_floor_area
\* that is not such a ground floor.
C24_MinFloorArea ==
    current_building # None =>
        LET fs == current_building.floors
        IN  /\ \A i \in 2..Len(fs) : fs[i].floor_area_m2 >= params.min_floor_area
            /\ fs # <<>> =>
                  (fs[1].floor_area_m2 >= params.min_floor_area
                      \/ fs[1].floor_area_m2 * 100 > params.area_unit)
            /\ (pc = "built" /\ stop_reason = "min_floor_area") =>
                  /\ NextArea < params.min_floor_area
                  /\ floor_num > 0 \/ NextArea * 100 <= params.area_unit
            /\ ~(/\ pc = "built"
                 /\ fs = <<>>
                 /\ base_geometry_area(params, current_building) > 0
                 /\ NextArea * 100 > params.area_unit
                 /\ ~height_exceeded(params, NextTop)
                 /\ ~far_exceeded(params, NextArea))

\* a ground floor of 0.02 below a minimum of 0.03 was committed and the floor
\* above it refused
C24_Witness ==
    /\ pc = "built"
    /\ stop_reason = "min_floor_area"
    /\ Len(current_building.floors) = 1
    /\ current_building.floors[1].floor_area_m2 < params.min_floor_area

\* a ground floor of negligible area was refused
C24_NegligibleWitness ==
    /\ pc = "built"
    /\ stop_reason = "min_floor_area"
    /\ current_building.floors = <<>>
    /\ NextArea > 0

LoggedCompliant(i) == all_evaluated_solutions[i].is_compliant

\* C27: in the log of a run every non-compliant massing scores strictly below
\* every compliant one, and when a run that evaluated at least one compliant
\* candidate finishes, the massing it returns is compliant.
C27_CompliantPreferred ==
    /\ \A i, j \in ScoredIdx :
          (~LoggedCompliant(i) /\ LoggedCompliant(j)) => LoggedScore(i) < LoggedScore(j)
    /\ (pc = "done" /\ \E i \in ScoredIdx : LoggedCompliant(i)) =>
          /\ ReturnValue # None
          /\ ReturnValue.floors # <<>>
          /\ is_compliant(params, ReturnValue)[1]

\* a finished run that evaluated a non-compliant candidate before a compliant one
C27_Witness ==
    /\ pc = "done"
    /\ \E i, j \in ScoredIdx : i < j /\ ~LoggedCompliant(i) /\ LoggedCompliant(j)
    /\ is_compliant(params, ReturnValue)[1]

\* ------------------------------------------------------------ termination
\* the loop of generate_floors keeps taking its next step
SpecStackLive == SpecStack /\ WF_vars(NextStack)

\* 1 + floor((max_height * 1.0001 - gf_floor_height) / uf_floor_height)
StatedFloorBound ==
    1 + (params.max_height * 10001 - params.gf_floor_height * 10000)
            \div (params.uf_floor_height * 10000)

FloorBound == IF StatedFloorBound < 0 THEN 0 ELSE StatedFloorBound

StackedFloors == IF current_building = None THEN 0 ELSE Len(current_building.floors)

\* a massing without floors has all its aggregates at 0
ZeroFloorMassingIsValid ==
    (pc = "built" /\ current_building.floors = <<>>) =>
        /\ current_building.total_built_area_m2 = 0
        /\ current_building.total_height_m = 0
        /\ current_building.achieved_far = 0
        /\ current_building.achieved_lot_coverage = 0
        /\ current_building.num_floors = 0
        /\ generation_failed(current_building)

\* C30 (as stated): when generate_floors has ended, the number of committed
\* floors is at most
\* 1 + floor((max_height * 1.0001 - gf_floor_height) / uf_floor_height).
C30_StatedFloorBound == pc = "built" => StackedFloors <= StatedFloorBound

\* C30 (amended): generate_floors always reaches its end, it never commits more
\* than max(0, 1 + floor((max_height * 1.0001 - gf_floor_height) /
\* uf_floor_height)) floors, and a massing without floors is returned with all
\* its aggregates at 0.
C30_Terminates ==
    /\ [](StackedFloors <= FloorBound)
    /\ []ZeroFloorMassingIsValid
    /\ (pc \in {"candidate", "stack"}) ~> (pc = "built")

\* the height test stopped the loop with as many floors as the bound allows
C30_Witness ==
    /\ pc = "built"
    /\ stop_reason = "height"
    /\ StackedFloors = 3
    /\ StackedFloors = FloorBound

\* the height test stopped the loop before any floor
C30_ZeroFloorWitness ==
    /\ pc = "built"
    /\ stop_reason = "height"
    /\ StackedFloors = 0
    /\ base_geometry_area(params, current_building) > 0

\* ------------------------------------------------------ CheckpointManager
\* A dict is kept as the set of its <<key, value>> items.
MaxCheckpointCalls == 4

LotIdStrings == {"a", "b"}
AllLotsLists == {<<"a", "b">>, <<"b", "a", "b">>}
ErrorMessages == {"e"}

DictKeys(d) == {kv[1] : kv \in d}
DictPut(d, k, v) == {kv \in d : kv[1] # k} \cup {<<k, v>>}

\* the elements of seq that are not in excluded, in the order of seq
RECURSIVE FilterSeq(_, _)
FilterSeq(seq, excluded) ==
    IF seq = <<>> THEN <<>>
    ELSE (IF Head(seq) \in excluded THEN <<>> ELSE <<Head(seq)>>)
         \o FilterSeq(Tail(seq), excluded)

\* the failed lots left out of the lots already dealt with
get_pending_lots_ignoring_failed(all_lots, processed, failed) ==
    FilterSeq(all_lots, processed)

\* CheckpointManager.get_pending_lots, lines 216-219
get_pending_lots(all_lots, processed, failed) ==
    FilterSeq(all_lots, processed \cup DictKeys(failed))

\* what save_checkpoint writes and load_checkpoint reads back: the JSON document
\* holds processed_lots as a list and failed_lots and results as objects, which
\* for string ids are read back as the same set and the same dicts
checkpoint_data ==
    [processed_lots |-> processed_lots, failed_lots |-> failed_lots, results |-> results]

\* a new CheckpointManager; the directory may hold a checkpoint of an earlier run
InitCheckpoint ==
    /\ processed_lots = {}
    /\ failed_lots = {}
    /\ results = {}
    /\ checkpoint_files \in
          {{}, {[processed_lots |-> {"a"}, failed_lots |-> {},
                 results |-> {<<"a", "result">>}]}}
    /\ pending_lots = <<>>
    /\ checkpoint_calls = <<>>
    /\ params \in {EvaluateParams(10, 8, 2, 2)}
    /\ footprint_polygon = 0
    /\ shapes = [g \in GeneratorIds |-> <<>>]
    /\ pc = "checkpoint"
    /\ gen_idx = 0
    /\ cand_idx = 0
    /\ best_building_solution = None
    /\ best_score = NegInf
    /\ all_evaluated_solutions = <<>>
    /\ current_building = None
    /\ current_height_m = 0
    /\ current_built_area_m2 = 0
    /\ floor_num = 0
    /\ stop_reason = "none"
    /\ compliance = None
    /\ evaluation = None
    /\ runs = 0
    /\ returned = <<>>
    /\ summaries = <<>>
    /\ previous_floors = <<>>
    /\ base_footprint = {}
    /\ shape_ratio_steps = <<>>
    /\ grid_generator = None
    /\ generated = <<>>
    /\ AppParamsIdle
    /\ PipelineIdle

checkpointFrame ==
    <<params, footprint_polygon, shapes, pc, gen_idx, cand_idx, optVars, current_building,
      loopVars, stop_reason, compliance, evaluation, runVars, genVars, appVars, pipeVars>>

Called(call) ==
    /\ pc = "checkpoint"
    /\ Len(checkpoint_calls) < MaxCheckpointCalls
    /\ checkpoint_calls' = Append(checkpoint_calls, call)

\* lines 54-55
RecordProcessedLot ==
    \E lot_id \in LotIdStrings :
        /\ Called(<<"record_processed_lot", lot_id>>)
        /\ processed_lots' = processed_lots \cup {lot_id}
        /\ results' = DictPut(results, lot_id, "result")
        /\ UNCHANGED <<checkpointFrame, failed_lots, checkpoint_files, pending_lots>>

\* line 65
RecordFailedLot ==
    \E lot_id \in LotIdStrings, error \in ErrorMessages :
        /\ Called(<<"record_failed_lot", lot_id>>)
        /\ failed_lots' = DictPut(failed_lots, lot_id, error)
        /\ UNCHANGED <<checkpointFrame, processed_lots, results, checkpoint_files,
                       pending_lots>>

\* lines 87-106: the checkpoint file written
SaveCheckpoint ==
    /\ Called(<<"save_checkpoint", "">>)
    /\ checkpoint_files' = checkpoint_files \cup {checkpoint_data}
    /\ UNCHANGED <<checkpointFrame, processed_lots, failed_lots, results, pending_lots>>

\* lines 128-135: the state replaced by the one of the file
LoadCheckpoint ==
    \E file \in checkpoint_files :
        /\ Called(<<"load_checkpoint", "">>)
        /\ processed_lots' = file.processed_lots
        /\ failed_lots' = file.failed_lots
        /\ results' = file.results
        /\ UNCHANGED <<checkpointFrame, checkpoint_files, pending_lots>>

\* lines 146-148: the file cannot be opened or parsed, nothing is restored
LoadCheckpointFails ==
    /\ Called(<<"load_checkpoint", "unreadable">>)
    /\ UNCHANGED <<checkpointFrame, processed_lots, failed_lots, results, checkpoint_files,
                   pending_lots>>

\* lines 216-219
GetPendingLots ==
    \E all_lots \in AllLotsLists :
        /\ Called(<<"get_pending_lots", all_lots>>)
        /\ pending_lots' = <<get_pending_lots(all_lots, processed_lots, failed_lots)>>
        /\ UNCHANGED <<checkpointFrame, processed_lots, failed_lots, results,
                       checkpoint_files>>

NextCheckpoint ==
    \/ RecordProcessedLot
    \/ RecordFailedLot
    \/ SaveCheckpoint
    \/ LoadCheckpoint
    \/ LoadCheckpointFails
    \/ GetPendingLots

SpecCheckpoint == InitCheckpoint /\ [][NextCheckpoint]_vars

LastCall == checkpoint_calls[Len(checkpoint_calls)]

\* the lots record_failed_lot was called with so far
RecordedFailed ==
    {checkpoint_calls[i][2] : i \in {k \in 1..Len(checkpoint_calls) :
                                        checkpoint_calls[k][1] = "record_failed_lot"}}

IsPendingOf(seq, all_lots) ==
    /\ \A i \in 1..Len(seq) : seq[i] \notin processed_lots \cup DictKeys(failed_lots)
    /\ \A x \in LotIdStrings :
          Cardinality({i \in 1..Len(seq) : seq[i] = x})
              = IF x \in processed_lots \cup DictKeys(failed_lots) THEN 0
                ELSE Cardinality({i \in 1..Len(all_lots) : all_lots[i] = x})
    /\ \E pos \in [1..Len(seq) -> 1..Len(all_lots)] :
          /\ \A i \in 1..Len(seq) : all_lots[pos[i]] = seq[i]
          /\ \A i, j \in 1..Len(seq) : i < j => pos[i] < pos[j]

\* what get_pending_lots returned is what the state holds right after the call
JustReturned ==
    /\ checkpoint_calls # <<>>
    /\ LastCall[1] = "get_pending_lots"

\* C25 (as stated): a lot that record_failed_lot was called with is never
\* returned as pending by a later get_pending_lots.
C25_FailedNeverPendingAgain ==
    JustReturned =>
        \A i \in 1..Len(pending_lots[1]) : pending_lots[1][i] \notin RecordedFailed

\* C25 (amended): get_pending_lots(all_lots) returns exactly the ids of all_lots
\* that are neither in processed_lots nor a key of failed_lots, in the order of
\* all_lots; no lot that is a key of failed_lots or a member of processed_lots
\* when the call is made is returned as pending.
C25_PendingExact ==
    JustReturned => IsPendingOf(pending_lots[1], LastCall[2])

\* after a failure, a checkpoint and a reload, get_pending_lots leaves out the
\* failed lot and returns the other one
C25_Witness ==
    /\ JustReturned
    /\ \E i \in 1..Len(checkpoint_calls) : checkpoint_calls[i][1] = "load_checkpoint"
    /\ DictKeys(failed_lots) # {}
    /\ pending_lots[1] # <<>>
    /\ Len(pending_lots[1]) < Len(LastCall[2])

\* -------------------------------------------------------------- AppParams
\* A parameter dict is the set of its <<key, value>> items; a value is a number
\* or a dict of numbers.
MaxUpdates == 2

Scalar(v) == [is_dict |-> FALSE, val |-> v, items |-> {}]
Dict(items) == [is_dict |-> TRUE, val |-> 0, items |-> items]

DictGet(d, k) == (CHOOSE kv \in d : kv[1] = k)[2]

\* what the configuration file holds
BaseConfigs ==
    {{},
     {<<"normative_parameters", Dict({<<"max_height", Scalar(30)>>, <<"max_far", Scalar(1)>>})>>},
     {<<"normative_parameters", Dict({<<"max_height", Scalar(30)>>})>>,
      <<"zoning_parameters", Scalar(0)>>}}

\* the per-parcel overrides: a normative section (absent, a number, or a dict with
\* max_height, max_far or both) and a zoning section (absent or a dict)
NormativeOverrides ==
    {{},
     {<<"normative_parameters", Scalar(7)>>},
     {<<"normative_parameters", Dict({<<"max_height", Scalar(50)>>})>>},
     {<<"normative_parameters", Dict({<<"max_far", Scalar(3)>>})>>},
     {<<"normative_parameters", Dict({<<"max_height", Scalar(50)>>, <<"max_far", Scalar(3)>>})>>}}
ZoningOverrides ==
    {{},
     {<<"zoning_parameters", Dict({<<"numlote", Scalar(1)>>})>>},
     {<<"zoning_parameters", Dict({<<"numlote", Scalar(2)>>})>>}}
LotSpecificParams == {n \cup z : n \in NormativeOverrides, z \in ZoningOverrides}

\* AppParams._merge_params, lines 41-48
RECURSIVE merge_params(_, _)
merge_params(base, override) ==
    {kv \in base : kv[1] \notin DictKeys(override)}
    \cup {<<kv[1],
            IF kv[2].is_dict /\ kv[1] \in DictKeys(base) /\ DictGet(base, kv[1]).is_dict
            THEN Dict(merge_params(DictGet(base, kv[1]).items, kv[2].items))
            ELSE kv[2]>> : kv \in override}

\* the overrides merged into the parameters of the previous parcel
update_for_lot_onto_current(base, current, lot_specific_params) ==
    merge_params(current, lot_specific_params)

\* AppParams.update_for_lot, lines 51-52: the new current_params
update_for_lot(base, current, lot_specific_params) ==
    merge_params(base, lot_specific_params)

\* AppParams.__init__, lines 19-25
InitAppParams ==
    /\ base_params \in BaseConfigs
    /\ current_params = base_params
    /\ lot_overrides = <<>>
    /\ params \in {EvaluateParams(10, 8, 2, 2)}
    /\ footprint_polygon = 0
    /\ shapes = [g \in GeneratorIds |-> <<>>]
    /\ pc = "app_params"
    /\ gen_idx = 0
    /\ cand_idx = 0
    /\ best_building_solution = None
    /\ best_score = NegInf
    /\ all_evaluated_solutions = <<>>
    /\ current_building = None
    /\ current_height_m = 0
    /\ current_built_area_m2 = 0
    /\ floor_num = 0
    /\ stop_reason = "none"
    /\ compliance = None
    /\ evaluation = None
    /\ runs = 0
    /\ returned = <<>>
    /\ summaries = <<>>
    /\ previous_floors = <<>>
    /\ base_footprint = {}
    /\ shape_ratio_steps = <<>>
    /\ grid_generator = None
    /\ generated = <<>>
    /\ CheckpointIdle
    /\ PipelineIdle

\* a call of update_for_lot
UpdateForLot ==
    \E lot_specific_params \in LotSpecificParams :
        /\ pc = "app_params"
        /\ Len(lot_overrides) < MaxUpdates
        /\ current_params' = update_for_lot(base_params, current_params, lot_specific_params)
        /\ lot_overrides' = Append(lot_overrides, lot_specific_params)
        /\ UNCHANGED <<base_params, params, footprint_polygon, shapes, pc, gen_idx, cand_idx,
                       optVars, current_building, loopVars, stop_reason, compliance,
                       evaluation, runVars, genVars, ckptVars, pipeVars>>

NextAppParams == UpdateForLot

SpecAppParams == InitAppParams /\ [][NextAppParams]_vars

\* the <<path, number>> leaves of a parameter dict
Leaves(d) ==
    {<<<<kv[1]>>, kv[2].val>> : kv \in {x \in d : ~x[2].is_dict}}
    \cup UNION {{<<<<kv[1], sub[1]>>, sub[2].val>> : sub \in kv[2].items} :
                    kv \in {x \in d : x[2].is_dict}}

\* one path is the other or starts it
Overlap(path, other) ==
    \/ path = other
    \/ Len(path) < Len(other) /\ path = SubSeq(other, 1, Len(path))
    \/ Len(other) < Len(path) /\ other = SubSeq(path, 1, Len(other))

LastOverrides == lot_overrides[Len(lot_overrides)]

\* current_params holds every value of the last overrides, every value of
\* base_params that the last overrides do not replace, and nothing else
MergedWithLastOnly ==
    lot_overrides # <<>> =>
        LET cur == Leaves(current_params)
            base == Leaves(base_params)
            over == Leaves(LastOverrides)
        IN  /\ over \subseteq cur
            /\ cur \subseteq base \cup over
            /\ \A leaf \in base :
                  leaf \in cur <=> ~\E o \in over : Overlap(leaf[1], o[1])
            /\ \A x, y \in cur : x[1] = y[1] => x = y

\* C29: update_for_lot never changes base_params, and after any sequence of
\* update_for_lot calls current_params is the recursive merge of base_params with
\* the overrides of the last call only: nothing of an earlier call survives.
C29_UpdateForLotFrame ==
    /\ [][base_params' = base_params]_vars
    /\ []MergedWithLastOnly

\* two calls: the first set max_far and a numlote, the second only max_height, and
\* max_far is back at its base value
C29_Witness ==
    /\ Len(lot_overrides) = 2
    /\ <<<<"normative_parameters", "max_far">>, 3>> \in Leaves(lot_overrides[1])
    /\ <<<<"zoning_parameters", "numlote">>, 1>> \in Leaves(lot_overrides[1])
    /\ Leaves(lot_overrides[2]) = {<<<<"normative_parameters", "max_height">>, 50>>}
    /\ <<<<"normative_parameters", "max_far">>, 1>> \in Leaves(current_params)
    /\ <<<<"normative_parameters", "max_height">>, 50>> \in Leaves(current_params)

\* ------------------------------------------------- run_modeling_pipeline
MaxLots == 2

\* the loop of generate_floors from floor n on, as one function: the Building with
\* the floors it ends with
RECURSIVE stack_floors(_, _, _, _, _)
stack_floors(p, b, n, h, built) ==
    LET top == h + floor_specific_height(p, n)
        area == current_floor_area(p, b, n, h)
    IN  IF height_exceeded(p, top) THEN b
        ELSE IF has_vertical_setback_this_floor(p, n) /\ area = 0 THEN b
        ELSE IF far_exceeded(p, built + area) THEN b
        ELSE IF below_min_floor_area(p, n, area) THEN b
        ELSE \* the floor is appended and the loop goes on with the values after it
             CHOOSE r \in
                {stack_floors(p, next[1], n + 1, next[2], next[3]) :
                    next \in {<<[b EXCEPT !.floors =
                                    Append(@, NewFloor(n, h, floor_specific_height(p, n),
                                                       area,
                                                       has_vertical_setback_this_floor(p, n),
                                                       current_total_back_setback(p, n, h),
                                                       p.min_front_setback,
                                                       p.min_side_setback))],
                                top, built + area>>}} : TRUE

\* Building.generate_floors, lines 173-246
generate_floors(p, b) ==
    IF base_geometry_area(p, b) = 0
    THEN calculate_final_metrics(p, [b EXCEPT !.floors = <<>>])
    ELSE calculate_final_metrics(p, stack_floors(p, [b EXCEPT !.floors = <<>>], 0, 0, 0))

\* BaseGenerator.generate_building_from_shape
generate_building_from_shape(p, shape) ==
    generate_floors(p, NewBuilding(p, shape.shape_name, shape.footprint))

\* OrthogonalGenerator.generate_shapes on a rectangular base footprint, whose
\* oriented bounding box is the footprint itself: the candidates as
\* [shape_name, footprint area]
orthogonal_shapes(fp) ==
    IF fp = 0 THEN <<>> ELSE <<[shape_name |-> <<"Ortogonal", 0>>, footprint |-> fp]>>

\* CompositeGenerator.generate_shapes on a rectangular base footprint of area fp:
\* the union of the two legs of ratio r / 4 covers (2r - r^2) of the bounding box,
\* fp * (8r - r * r) / 16, and is built twice, as V1 and as H1
RECURSIVE composite_shapes(_, _)
composite_shapes(fp, ratios) ==
    IF fp = 0 \/ ratios = <<>> THEN <<>>
    ELSE LET r == Head(ratios)
             area == (fp * (8 * r - r * r)) \div 16
         IN  (IF r <= 0 \/ r >= 4 \/ area = 0 THEN <<>>
              ELSE <<[shape_name |-> <<"L-V1", r>>, footprint |-> area],
                     [shape_name |-> <<"L-H1", r>>, footprint |-> area]>>)
             \o composite_shapes(fp, Tail(ratios))

\* the loop of run_optimization over the candidates from the i-th on:
\* <<best_building_solution, best_score>>
RECURSIVE optimize_from(_, _, _, _)
optimize_from(p, candidates, i, best) ==
    IF i > Len(candidates) THEN best
    ELSE \* b, score: the candidate's Building and its score, computed once
         CHOOSE r \in
            {IF generation_failed(b[1]) THEN optimize_from(p, candidates, i + 1, best)
             ELSE IF ScoreGT(b[2], best[2])
                  THEN optimize_from(p, candidates, i + 1, b)
                  ELSE optimize_from(p, candidates, i + 1, best) :
                b \in {<<bld, evaluate_building(p, bld)[1]>> :
                          bld \in {generate_building_from_shape(p, candidates[i])}}} : TRUE

\* GridSearchOptimizer.run_optimization with the generators of
\* _initialize_generators, the CompositeGenerator alone
run_optimization(p, fp, ratios) ==
    optimize_from(p, composite_shapes(fp, ratios), 1, <<None, NegInf>>)

\* the zoning of one parcel of the pipeline: a 4 x ld lot, no setbacks, floors of
\* 5000; max_far in halves
PipelineLotParams(mh, mf, ld) ==
    [EvaluateParams(mh, ld, mf, 2) EXCEPT !.lot_width = 4]

\* one entry of all_lots_data with what the run meets on it: modeling_mode and
\* shape_ratio_steps (in quarters) of its configuration, and raises, the call that
\* raises an exception on this parcel ("none" when none does)
LotData(id, p, mode, ratios, raising) ==
    [lot_id |-> id, params |-> p, modeling_mode |-> mode, shape_ratio_steps |-> ratios,
     raises |-> raising]

LotKinds ==
    {LotData("basic", PipelineLotParams(10000, 2, 4), "basic", <<2>>, "none"),
     LotData("far_1_0", PipelineLotParams(10000, 2, 4), "advanced", <<2>>, "none"),
     LotData("far_1_5", PipelineLotParams(10000, 3, 4), "advanced", <<2>>, "none"),
     LotData("no_ratio", PipelineLotParams(10000, 2, 4), "advanced", <<>>, "none"),
     LotData("empty", PipelineLotParams(10000, 2, 0), "advanced", <<2>>, "none"),
     LotData("negative_height", PipelineLotParams(0 - 1, 2, 4), "advanced", <<2>>, "none"),
     LotData("building_raises", PipelineLotParams(10000, 2, 4), "advanced", <<2>>, "Building"),
     LotData("baseline_raises", PipelineLotParams(10000, 3, 4), "advanced", <<2>>,
             "OrthogonalGenerator"),
     LotData("optimizer_raises", PipelineLotParams(10000, 3, 4), "advanced", <<2>>,
             "GridSearchOptimizer")}

\* line 74, at the head of the loop of line 77 with a list that is not empty
InitPipeline ==
    /\ all_lots_data \in SeqsUpTo(LotKinds, MaxLots)
    /\ all_lots_data # <<>>
    /\ lot_idx = 1
    /\ overall_summary_data = <<>>
    /\ attempted = {}
    /\ baseline_building = None
    /\ best_shape_building = None
    /\ exported = <<>>
    /\ params = all_lots_data[1].params
    /\ footprint_polygon = 0
    /\ shapes = [g \in GeneratorIds |-> <<>>]
    /\ pc = "lot"
    /\ gen_idx = 0
    /\ cand_idx = 0
    /\ best_building_solution = None
    /\ best_score = NegInf
    /\ all_evaluated_solutions = <<>>
    /\ current_building = None
    /\ current_height_m = 0
    /\ current_built_area_m2 = 0
    /\ floor_num = 0
    /\ stop_reason = "none"
    /\ compliance = None
    /\ evaluation = None
    /\ runs = 0
    /\ returned = <<>>
    /\ summaries = <<>>
    /\ previous_floors = <<>>
    /\ base_footprint = {}
    /\ shape_ratio_steps = <<>>
    /\ grid_generator = None
    /\ generated = <<>>
    /\ CheckpointIdle
    /\ AppParamsIdle

pipelineFrame ==
    <<shapes, gen_idx, cand_idx, all_evaluated_solutions, current_building, loopVars,
      stop_reason, compliance, evaluation, runVars, genVars, ckptVars, appVars,
      all_lots_data>>

\* `continue` taken for a break
loop_next_break(idx, n) == "export_summary"

\* where the loop of line 77 goes after the parcel at position idx of n: the next
\* parcel, or line 232 after the last
loop_next(idx, n) == IF idx < n THEN "lot" ELSE "export_summary"

\* a status record of overall_summary_data
LotSummary(id, status, error_message, baseline_error, best_shape_name, best_shape_score) ==
    [numlote |-> id, status |-> status, error_message |-> error_message,
     baseline_error |-> baseline_error, best_shape_name |-> best_shape_name,
     best_shape_score |-> best_shape_score]

\* the two export calls made for one massing
Export(idx, suffix, b) == [lot |-> idx, suffix |-> suffix, building |-> b]

\* lines 80-93: the parcel's parameters and its base Building
CreateBuildingBase ==
    /\ pc = "lot"
    /\ all_lots_data[lot_idx].raises # "Building"
    /\ params' = all_lots_data[lot_idx].params
    /\ footprint_polygon' = base_footprint_area(all_lots_data[lot_idx].params)
    /\ attempted' = attempted \cup {<<lot_idx, "Building">>}
    /\ baseline_building' = None
    /\ best_shape_building' = None
    /\ pc' = "lot_footprint"
    /\ UNCHANGED <<pipelineFrame, lot_idx, overall_summary_data, exported,
                   best_building_solution, best_score>>

\* lines 94-97: Building raises
BuildingBaseRaises ==
    /\ pc = "lot"
    /\ all_lots_data[lot_idx].raises = "Building"
    /\ params' = all_lots_data[lot_idx].params
    /\ attempted' = attempted \cup {<<lot_idx, "Building">>}
    /\ overall_summary_data' =
          Append(overall_summary_data,
                 LotSummary(all_lots_data[lot_idx].lot_id,
                            "Erro na criacao do Building base", "e", "", "", None))
    /\ lot_idx' = lot_idx + 1
    /\ pc' = loop_next(lot_idx, Len(all_lots_data))
    /\ UNCHANGED <<pipelineFrame, footprint_polygon, baseline_building,
                   best_shape_building, exported, best_building_solution, best_score>>

\* lines 99-102
FootprintInvalid ==
    /\ pc = "lot_footprint"
    /\ footprint_polygon = 0
    /\ overall_summary_data' =
          Append(overall_summary_data,
                 LotSummary(all_lots_data[lot_idx].lot_id, "Footprint base invalido",
                            "", "", "", None))
    /\ lot_idx' = lot_idx + 1
    /\ pc' = loop_next(lot_idx, Len(all_lots_data))
    /\ UNCHANGED <<pipelineFrame, params, footprint_polygon, attempted, baseline_building,
                   best_shape_building, exported, best_building_solution, best_score>>

\* lines 107-125: the orthogonal baseline, exported when it has floors
GenerateBaseline ==
    /\ pc = "lot_footprint"
    /\ footprint_polygon # 0
    /\ all_lots_data[lot_idx].raises # "OrthogonalGenerator"
    /\ \E generated_ortho_shapes \in {orthogonal_shapes(footprint_polygon)} :
       \E b \in {generate_building_from_shape(params, generated_ortho_shapes[1])} :
           /\ attempted' = attempted \cup
                 ({<<lot_idx, "generate_shapes">>} \cup
                  (IF generated_ortho_shapes # <<>>
                   THEN {<<lot_idx, "generate_floors">>} ELSE {}) \cup
                  (IF generated_ortho_shapes # <<>> /\ b.floors # <<>>
                   THEN {<<lot_idx, "export">>} ELSE {}))
           /\ baseline_building' =
                 IF generated_ortho_shapes # <<>> /\ b.floors # <<>> THEN b ELSE None
           /\ exported' =
                 IF generated_ortho_shapes # <<>> /\ b.floors # <<>>
                 THEN Append(exported, Export(lot_idx, "baseline", b)) ELSE exported
    /\ pc' = "lot_best_shape"
    /\ UNCHANGED <<pipelineFrame, params, footprint_polygon, lot_idx, overall_summary_data,
                   best_shape_building, best_building_solution, best_score>>

\* lines 126-128: the baseline generation raises
BaselineRaises ==
    /\ pc = "lot_footprint"
    /\ footprint_polygon # 0
    /\ all_lots_data[lot_idx].raises = "OrthogonalGenerator"
    /\ attempted' = attempted \cup {<<lot_idx, "generate_shapes">>}
    /\ baseline_building' = None
    /\ pc' = "lot_best_shape"
    /\ UNCHANGED <<pipelineFrame, params, footprint_polygon, lot_idx, overall_summary_data,
                   best_shape_building, exported, best_building_solution, best_score>>

\* lines 131-134, 156-161: modeling_mode is not "advanced", the baseline is the best shape
BasicMode ==
    /\ pc = "lot_best_shape"
    /\ all_lots_data[lot_idx].modeling_mode # "advanced"
    /\ best_shape_building' = baseline_building
    /\ pc' = "lot_summary"
    /\ UNCHANGED <<pipelineFrame, params, footprint_polygon, lot_idx, overall_summary_data,
                   attempted, baseline_building, exported, best_building_solution,
                   best_score>>

\* lines 134-150, 156-161: a new optimizer runs; the baseline when it returns nothing
\* with floors
RunOptimizer ==
    /\ pc = "lot_best_shape"
    /\ all_lots_data[lot_idx].modeling_mode = "advanced"
    /\ all_lots_data[lot_idx].raises # "GridSearchOptimizer"
    /\ \E best \in {run_optimization(params, footprint_polygon,
                                     all_lots_data[lot_idx].shape_ratio_steps)} :
           /\ best_building_solution' = best[1]
           /\ best_score' = best[2]
           /\ best_shape_building' =
                 IF best[1] = None \/ best[1].floors = <<>>
                 THEN baseline_building ELSE best[1]
    /\ attempted' = attempted \cup
          ({<<lot_idx, "run_optimization">>, <<lot_idx, "generate_shapes">>} \cup
           (IF composite_shapes(footprint_polygon,
                                all_lots_data[lot_idx].shape_ratio_steps) # <<>>
            THEN {<<lot_idx, "generate_floors">>} ELSE {}))
    /\ pc' = "lot_summary"
    /\ UNCHANGED <<pipelineFrame, params, footprint_polygon, lot_idx, overall_summary_data,
                   baseline_building, exported>>

\* lines 151-153, 156-161: run_optimization raises
OptimizerRaises ==
    /\ pc = "lot_best_shape"
    /\ all_lots_data[lot_idx].modeling_mode = "advanced"
    /\ all_lots_data[lot_idx].raises = "GridSearchOptimizer"
    /\ best_building_solution' = None
    /\ best_score' = NegInf
    /\ best_shape_building' = baseline_building
    /\ attempted' = attempted \cup {<<lot_idx, "run_optimization">>}
    /\ pc' = "lot_summary"
    /\ UNCHANGED <<pipelineFrame, params, footprint_polygon, lot_idx, overall_summary_data,
                   baseline_building, exported>>

\* lines 163-229: the best shape exported, the parcel's record appended
SummarizeLot ==
    /\ pc = "lot_summary"
    /\ LET has_best == best_shape_building # None /\ best_shape_building.floors # <<>>
           has_baseline == baseline_building # None /\ baseline_building.floors # <<>>
       IN  /\ exported' =
                 IF has_best
                 THEN Append(exported, Export(lot_idx, "best_shape", best_shape_building))
                 ELSE exported
           /\ attempted' =
                 IF has_best THEN attempted \cup {<<lot_idx, "export">>} ELSE attempted
           /\ overall_summary_data' =
                 Append(overall_summary_data,
                        LotSummary(all_lots_data[lot_idx].lot_id,
                                   IF has_baseline THEN "Processado" ELSE "Erro na Baseline",
                                   "",
                                   IF has_baseline THEN ""
                                   ELSE "Baseline nao gerada ou sem pavimentos",
                                   IF has_best THEN best_shape_building.shape_name
                                   ELSE <<"", 0>>,
                                   IF has_best
                                      /\ all_lots_data[lot_idx].modeling_mode = "advanced"
                                      /\ best_shape_building = best_building_solution
                                   THEN best_score ELSE None))
    /\ lot_idx' = lot_idx + 1
    /\ pc' = loop_next(lot_idx, Len(all_lots_data))
    /\ UNCHANGED <<pipelineFrame, params, footprint_polygon, baseline_building,
                   best_shape_building, best_building_solution, best_score>>

\* lines 231-237
ExportSummaryCsv ==
    /\ pc = "export_summary"
    /\ exported' = Append(exported, Export(0, "summary", None))
    /\ pc' = "pipeline_done"
    /\ UNCHANGED <<pipelineFrame, params, footprint_polygon, lot_idx, overall_summary_data,
                   attempted, baseline_building, best_shape_building,
                   best_building_solution, best_score>>

NextPipeline ==
    \/ CreateBuildingBase
    \/ BuildingBaseRaises
    \/ FootprintInvalid
    \/ GenerateBaseline
    \/ BaselineRaises
    \/ BasicMode
    \/ RunOptimizer
    \/ OptimizerRaises
    \/ SummarizeLot
    \/ ExportSummaryCsv

SpecPipeline == InitPipeline /\ [][NextPipeline]_vars

\* the loop of the pipeline is not suspended
SpecPipelineLive == SpecPipeline /\ WF_vars(NextPipeline)

\* ---------------------------------------------------------------- C21
\* what fails for a parcel: one of the three guarded calls raises, or the base
\* footprint is empty
LotFails(lot) == lot.raises # "none" \/ base_footprint_area(lot.params) = 0

RecordsFollowInput ==
    /\ Len(overall_summary_data) =
          (IF pc \in {"export_summary", "pipeline_done"}
           THEN Len(all_lots_data) ELSE lot_idx - 1)
    /\ \A i \in 1..Len(overall_summary_data) :
          overall_summary_data[i].numlote = all_lots_data[i].lot_id
    /\ pc = "pipeline_done" =>
          \A i \in 1..Len(all_lots_data) : <<i, "Building">> \in attempted

\* C21: whatever fails for a parcel (Building construction, empty base footprint,
\* baseline generation, optimization), the loop goes on to every later parcel and
\* reaches its end, and the summary holds one record per input parcel, in input
\* order
C21_NoFailureHalts ==
    /\ []RecordsFollowInput
    /\ <>(pc = "pipeline_done" /\ Len(overall_summary_data) = Len(all_lots_data))

\* a run that ended, whose first parcel failed and whose second was processed
C21_Witness ==
    /\ pc = "pipeline_done"
    /\ Len(all_lots_data) = 2
    /\ LotFails(all_lots_data[1])
    /\ overall_summary_data[1].status # "Processado"
    /\ overall_summary_data[2].status = "Processado"

\* ---------------------------------------------------------------- C22
\* a required zoning parameter with an invalid value: a negative max_height
InvalidZoning(p) == p.max_height < 0

\* C22: a parcel whose max_height is negative is skipped as a configuration error:
\* no candidate generation, floor stacking, optimization or export is attempted for
\* it, and its record carries the reason
C22_InvalidZoningSkipped ==
    \A i \in 1..Len(overall_summary_data) :
        InvalidZoning(all_lots_data[i].params) =>
            /\ \A op \in {"generate_shapes", "generate_floors", "run_optimization",
                          "export"} : <<i, op>> \notin attempted
            /\ overall_summary_data[i].status \notin {"Processado", "Erro na Baseline"}
            /\ overall_summary_data[i].error_message # ""

\* ---------------------------------------------------------------- C28
\* the score the evaluator gives a massing of the parcel at position i
LotScore(i, b) == evaluate_building(all_lots_data[i].params, b)[1]

\* C28: in advanced mode the massing exported as best_shape of a parcel scores at
\* least as much as the orthogonal baseline exported for that parcel
C28_BestShapeNotWorse ==
    \A i, j \in 1..Len(exported) :
        (/\ exported[i].suffix = "best_shape"
         /\ exported[j].suffix = "baseline"
         /\ exported[i].lot = exported[j].lot
         /\ all_lots_data[exported[i].lot].modeling_mode = "advanced")
        => ScoreGE(LotScore(exported[i].lot, exported[i].building),
                   LotScore(exported[j].lot, exported[j].building))

====
